---- MODULE Spec2Model ----
(***************************************************************************)
(* Model of the ustc-swap contract (contracts/contracts/ustc-swap): the    *)
(* Swap handler, its pricing arithmetic, the per-code ledger and the       *)
(* top-K referral leaderboard kept as a doubly-linked list in key-value    *)
(* storage.                                                                *)
(*                                                                         *)
(* Option<T> is a sequence of length 0 (None) or 1 (Some(x)).  A storage   *)
(* Map is a function whose DOMAIN is the set of keys that have a row.      *)
(* load(m, k) on a missing row is the application m[k] outside DOMAIN m,   *)
(* which the model checker reports as an error.                            *)
(***************************************************************************)
EXTENDS Integers, Sequences, FiniteSets, TLC

VARIABLES storage, now, last

vars == <<storage, now, last>>

(* ------------------------------ bounds -------------------------------- *)

\* state.rs:110 sets 50; the model keeps a smaller K so that filling,
\* eviction and re-entry all happen within the explored runs.
MAX_LEADERBOARD_SIZE == 3

\* cosmwasm_std::Decimal keeps 18 fractional digits (10^18); the model
\* keeps one so that products stay inside the checker's integers.
DECIMAL_FRACTIONAL == 10

\* state.rs:96 sets 10^12; scaled down for the same reason.
DECIMAL_ADJUSTMENT == 10

\* cap on the sum of all accepted deposits (stops the counters growing).
MaxUstcReceived == 6000000

\* last block time the environment reaches.
MaxTime == 2

\* state.rs:113 and state.rs:115 set 10 and 50; scaled with the list: the
\* default page is shorter than a full list, the largest page is a full list.
DEFAULT_LEADERBOARD_LIMIT == 2
MAX_LEADERBOARD_LIMIT == 3

(* -------------------------- program constants ------------------------- *)

MIN_SWAP_AMOUNT == 1000000
REFERRAL_BONUS_NUMERATOR == 10
REFERRAL_BONUS_DENOMINATOR == 100
MINT_SAFETY_LIMIT_NUMERATOR == 5
MINT_SAFETY_LIMIT_DENOMINATOR == 100
USTC_DENOM == "uusd"

(* ------------------------------ Option -------------------------------- *)

None == <<>>
Some(x) == <<x>>
IsSome(o) == Len(o) = 1
Unwrap(o) == o[1]

(* ---------------------------- storage maps ---------------------------- *)

\* Map::save
MapSave(m, k, v) == [x \in (DOMAIN m) \cup {k} |-> IF x = k THEN v ELSE m[x]]
\* Map::remove
MapRemove(m, k) == [x \in (DOMAIN m) \ {k} |-> m[x]]
\* Map::may_load
MapMayLoad(m, k) == IF k \in DOMAIN m THEN Some(m[k]) ELSE None
\* Map::load
MapLoad(m, k) == m[k]

\* the single element of a singleton set: Only({e(x) : x \in {v}}) is e with x
\* bound to the value of v, computed once, as a Rust `let x = v;`
Only(S) == CHOOSE x \in S : TRUE

EmptyMap == [x \in {} |-> 0]

(* ------------------------------ strings ------------------------------- *)

\* str::to_lowercase on the one-letter codes the model uses
to_lowercase(s) ==
    CASE s = "A" -> "a"
      [] s = "B" -> "b"
      [] OTHER -> s

(* ------------------------- integer arithmetic ------------------------- *)

\* Uint128::multiply_ratio: floor(x * n / d), computed without forming x * n
multiply_ratio(x, n, d) == (x \div d) * n + ((x % d) * n) \div d

\* Decimal::from_ratio(n, d): atomics = floor(n * 10^digits / d)
Decimal_from_ratio(n, d) == multiply_ratio(n, DECIMAL_FRACTIONAL, d)
\* Decimal / Decimal
Decimal_div(a, b) == multiply_ratio(a, DECIMAL_FRACTIONAL, b)
\* Decimal * Decimal
Decimal_mul(a, b) == multiply_ratio(a, b, DECIMAL_FRACTIONAL)
\* Decimal * Uint128
Decimal_mul_uint(a, u) == multiply_ratio(u, a, DECIMAL_FRACTIONAL)

Min(a, b) == IF a < b THEN a ELSE b
saturating_sub(a, b) == IF a > b THEN a - b ELSE 0

(* ----------------------------- rate engine ---------------------------- *)

\* the configurations on which calculate_current_rate aborts instead of
\* returning: end_rate - start_rate underflows the unsigned Decimal (line 606),
\* Decimal::from_ratio panics on a zero denominator (line 607)
calculate_current_rate_panics(config) ==
    \/ config.end_rate < config.start_rate
    \/ config.end_time - config.start_time = 0

\* variant: progress is the remaining fraction of the window, not the elapsed one
calculate_current_rate_remaining(config, current_time) ==
    LET total_seconds == config.end_time - config.start_time
        elapsed0 == saturating_sub(current_time, config.start_time)
        elapsed_seconds == Min(elapsed0, total_seconds)
        rate_diff == config.end_rate - config.start_rate
        progress == Decimal_from_ratio(total_seconds - elapsed_seconds, total_seconds)
    IN  config.start_rate + Decimal_mul(rate_diff, progress)

calculate_current_rate(config, current_time) ==
    LET total_seconds == config.end_time - config.start_time
        elapsed0 == saturating_sub(current_time, config.start_time)
        elapsed_seconds == Min(elapsed0, total_seconds)
        rate_diff == config.end_rate - config.start_rate
        progress == Decimal_from_ratio(elapsed_seconds, total_seconds)
    IN  config.start_rate + Decimal_mul(rate_diff, progress)

(* ----------------------------- leaderboard ---------------------------- *)

Rewards(s, code) == MapLoad(s.REFERRAL_CODE_STATS, code).total_rewards_earned

RECURSIVE PositionWalk(_, _, _, _)
PositionWalk(s, current, target_code, position) ==
    IF ~IsSome(current) THEN None
    ELSE IF Unwrap(current) = target_code THEN Some(position)
    ELSE PositionWalk(s, MapLoad(s.LEADERBOARD_LINKS, Unwrap(current)).next,
                      target_code, position + 1)

get_leaderboard_position(s, target_code) ==
    PositionWalk(s, s.LEADERBOARD_HEAD, target_code, 1)

remove_from_leaderboard_internal(s, code, link) ==
    LET s1 == IF IsSome(link.prev)
              THEN LET prev == Unwrap(link.prev)
                       prev_link == MapLoad(s.LEADERBOARD_LINKS, prev)
                   IN  [s EXCEPT !.LEADERBOARD_LINKS =
                          MapSave(@, prev, [prev_link EXCEPT !.next = link.next])]
              ELSE [s EXCEPT !.LEADERBOARD_HEAD = link.next]
        s2 == IF IsSome(link.next)
              THEN LET next == Unwrap(link.next)
                       next_link == MapLoad(s1.LEADERBOARD_LINKS, next)
                   IN  [s1 EXCEPT !.LEADERBOARD_LINKS =
                          MapSave(@, next, [next_link EXCEPT !.prev = link.prev])]
              ELSE [s1 EXCEPT !.LEADERBOARD_TAIL = link.prev]
    IN  [s2 EXCEPT !.LEADERBOARD_LINKS = MapRemove(@, code)]
\* variant: a code linked below the last node does not become the tail
insert_at_position_stale_tail(s, code, prev, next) ==
    LET s0 == [s EXCEPT !.LEADERBOARD_LINKS =
                 MapSave(@, code, [prev |-> prev, next |-> next])]
        s1 == IF IsSome(prev)
              THEN LET prev_code == Unwrap(prev)
                       prev_link == MapLoad(s0.LEADERBOARD_LINKS, prev_code)
                   IN  [s0 EXCEPT !.LEADERBOARD_LINKS =
                          MapSave(@, prev_code, [prev_link EXCEPT !.next = Some(code)])]
              ELSE [s0 EXCEPT !.LEADERBOARD_HEAD = Some(code)]
        s2 == IF IsSome(next)
              THEN LET next_code == Unwrap(next)
                       next_link == MapLoad(s1.LEADERBOARD_LINKS, next_code)
                   IN  [s1 EXCEPT !.LEADERBOARD_LINKS =
                          MapSave(@, next_code, [next_link EXCEPT !.prev = Some(code)])]
              ELSE s1
    IN  s2

\* variant: the node below the new one keeps its old prev pointer
insert_at_position_stale_prev(s, code, prev, next) ==
    LET s0 == [s EXCEPT !.LEADERBOARD_LINKS =
                 MapSave(@, code, [prev |-> prev, next |-> next])]
        s1 == IF IsSome(prev)
              THEN LET prev_code == Unwrap(prev)
                       prev_link == MapLoad(s0.LEADERBOARD_LINKS, prev_code)
                   IN  [s0 EXCEPT !.LEADERBOARD_LINKS =
                          MapSave(@, prev_code, [prev_link EXCEPT !.next = Some(code)])]
              ELSE [s0 EXCEPT !.LEADERBOARD_HEAD = Some(code)]
        s2 == IF IsSome(next)
              THEN s1
              ELSE [s1 EXCEPT !.LEADERBOARD_TAIL = Some(code)]
    IN  s2
insert_at_position(s, code, prev, next) ==
    LET s0 == [s EXCEPT !.LEADERBOARD_LINKS =
                 MapSave(@, code, [prev |-> prev, next |-> next])]
        s1 == IF IsSome(prev)
              THEN LET prev_code == Unwrap(prev)
                       prev_link == MapLoad(s0.LEADERBOARD_LINKS, prev_code)
                   IN  [s0 EXCEPT !.LEADERBOARD_LINKS =
                          MapSave(@, prev_code, [prev_link EXCEPT !.next = Some(code)])]
              ELSE [s0 EXCEPT !.LEADERBOARD_HEAD = Some(code)]
        s2 == IF IsSome(next)
              THEN LET next_code == Unwrap(next)
                       next_link == MapLoad(s1.LEADERBOARD_LINKS, next_code)
                   IN  [s1 EXCEPT !.LEADERBOARD_LINKS =
                          MapSave(@, next_code, [next_link EXCEPT !.prev = Some(code)])]
              ELSE [s1 EXCEPT !.LEADERBOARD_TAIL = Some(code)]
    IN  s2

\* the downward loop of insert_searching_down: the final insert_after
\* variant: the downward walk stops above a node whose reward equals the new one
RECURSIVE SearchDownLoop_above_ties(_, _, _, _)
SearchDownLoop_above_ties(s, rewards, current, insert_after) ==
    IF ~IsSome(current) THEN insert_after
    ELSE LET curr == Unwrap(current) IN
         IF Rewards(s, curr) >= rewards
         THEN LET curr_link == MapLoad(s.LEADERBOARD_LINKS, curr) IN
              IF IsSome(curr_link.next)
              THEN IF Rewards(s, Unwrap(curr_link.next)) <= rewards
                   THEN Some(curr)
                   ELSE SearchDownLoop_above_ties(s, rewards, curr_link.next,
                                                  Some(curr))
              ELSE Some(curr)
         ELSE insert_after
RECURSIVE SearchDownLoop(_, _, _, _)
SearchDownLoop(s, rewards, current, insert_after) ==
    IF ~IsSome(current) THEN insert_after
    ELSE LET curr == Unwrap(current) IN
         IF Rewards(s, curr) >= rewards
         THEN LET curr_link == MapLoad(s.LEADERBOARD_LINKS, curr) IN
              IF IsSome(curr_link.next)
              THEN IF Rewards(s, Unwrap(curr_link.next)) < rewards
                   THEN Some(curr)
                   ELSE SearchDownLoop(s, rewards, curr_link.next, Some(curr))
              ELSE Some(curr)
         ELSE insert_after
\* variant: the code is linked right below the starting node, without the walk
insert_searching_down_no_walk(s, code, rewards, start_from) ==
    insert_at_position(s, code, Some(start_from),
                       MapLoad(s.LEADERBOARD_LINKS, start_from).next)

insert_searching_down(s, code, rewards, start_from) ==
    LET insert_after == SearchDownLoop(s, rewards, Some(start_from), None)
        insert_before == IF IsSome(insert_after)
                         THEN MapLoad(s.LEADERBOARD_LINKS, Unwrap(insert_after)).next
                         ELSE s.LEADERBOARD_HEAD
    IN  insert_at_position(s, code, insert_after, insert_before)

\* variant: the upward walk passes the nodes whose reward equals the new one
RECURSIVE SearchUpLoop_past_ties(_, _, _)
SearchUpLoop_past_ties(s, rewards, current) ==
    IF ~IsSome(current) THEN None
    ELSE LET curr == Unwrap(current) IN
         IF Rewards(s, curr) > rewards
         THEN Some(curr)
         ELSE SearchUpLoop_past_ties(s, rewards, MapLoad(s.LEADERBOARD_LINKS, curr).prev)

\* the upward loop of insert_into_leaderboard_from_position: the final insert_after
RECURSIVE SearchUpLoop(_, _, _)
SearchUpLoop(s, rewards, current) ==
    IF ~IsSome(current) THEN None
    ELSE LET curr == Unwrap(current) IN
         IF Rewards(s, curr) >= rewards
         THEN Some(curr)
         ELSE SearchUpLoop(s, rewards, MapLoad(s.LEADERBOARD_LINKS, curr).prev)

insert_into_leaderboard_from_position(s, code, rewards, start_from) ==
    LET insert_after == SearchUpLoop(s, rewards, start_from)
        insert_before == IF IsSome(insert_after)
                         THEN MapLoad(s.LEADERBOARD_LINKS, Unwrap(insert_after)).next
                         ELSE s.LEADERBOARD_HEAD
        s0 == [s EXCEPT !.LEADERBOARD_LINKS =
                 MapSave(@, code, [prev |-> insert_after, next |-> insert_before])]
        s1 == IF IsSome(insert_after)
              THEN LET prev == Unwrap(insert_after)
                       prev_link == MapLoad(s0.LEADERBOARD_LINKS, prev)
                   IN  [s0 EXCEPT !.LEADERBOARD_LINKS =
                          MapSave(@, prev, [prev_link EXCEPT !.next = Some(code)])]
              ELSE [s0 EXCEPT !.LEADERBOARD_HEAD = Some(code)]
        s2 == IF IsSome(insert_before)
              THEN LET next == Unwrap(insert_before)
                       next_link == MapLoad(s1.LEADERBOARD_LINKS, next)
                   IN  [s1 EXCEPT !.LEADERBOARD_LINKS =
                          MapSave(@, next, [next_link EXCEPT !.prev = Some(code)])]
              ELSE [s1 EXCEPT !.LEADERBOARD_TAIL = Some(code)]
    IN  s2
\* variant: without a hint the code is always linked below the tail
insert_into_leaderboard_append(s, code, rewards) ==
    LET head == s.LEADERBOARD_HEAD IN
    IF ~IsSome(head)
    THEN [s EXCEPT !.LEADERBOARD_HEAD = Some(code),
                   !.LEADERBOARD_TAIL = Some(code),
                   !.LEADERBOARD_LINKS = MapSave(@, code, [prev |-> None, next |-> None])]
    ELSE LET tail == s.LEADERBOARD_TAIL
             tail_code == IF IsSome(tail) THEN Unwrap(tail) ELSE Unwrap(head)
             tail_link == MapLoad(s.LEADERBOARD_LINKS, tail_code)
             s1 == [s EXCEPT !.LEADERBOARD_LINKS =
                      MapSave(@, tail_code, [tail_link EXCEPT !.next = Some(code)])]
             s2 == [s1 EXCEPT !.LEADERBOARD_LINKS =
                      MapSave(@, code, [prev |-> Some(tail_code), next |-> None])]
         IN  [s2 EXCEPT !.LEADERBOARD_TAIL = Some(code)]

insert_into_leaderboard(s, code, rewards) ==
    LET head == s.LEADERBOARD_HEAD IN
    IF ~IsSome(head)
    THEN [s EXCEPT !.LEADERBOARD_HEAD = Some(code),
                   !.LEADERBOARD_TAIL = Some(code),
                   !.LEADERBOARD_LINKS = MapSave(@, code, [prev |-> None, next |-> None])]
    ELSE LET tail == s.LEADERBOARD_TAIL
             tail_code == IF IsSome(tail) THEN Unwrap(tail) ELSE Unwrap(head)
         IN  IF rewards <= Rewards(s, tail_code)
             THEN LET tail_link == MapLoad(s.LEADERBOARD_LINKS, tail_code)
                      s1 == [s EXCEPT !.LEADERBOARD_LINKS =
                               MapSave(@, tail_code, [tail_link EXCEPT !.next = Some(code)])]
                      s2 == [s1 EXCEPT !.LEADERBOARD_LINKS =
                               MapSave(@, code, [prev |-> Some(tail_code), next |-> None])]
                  IN  [s2 EXCEPT !.LEADERBOARD_TAIL = Some(code)]
             ELSE insert_into_leaderboard_from_position(s, code, rewards, Some(tail_code))
\* variant: a hint that names a listed code is used without being validated
insert_into_leaderboard_with_hint_trusting(s, code, rewards, hint) ==
    IF ~IsSome(hint) THEN insert_into_leaderboard(s, code, rewards)
    ELSE LET insert_after == Unwrap(hint).insert_after IN
         IF IsSome(insert_after)
         THEN LET after_code == Unwrap(insert_after)
                  after_opt == MapMayLoad(s.LEADERBOARD_LINKS, after_code)
              IN  IF ~IsSome(after_opt)
                  THEN insert_into_leaderboard(s, code, rewards)
                  ELSE insert_at_position(s, code, Some(after_code),
                                          Unwrap(after_opt).next)
         ELSE LET head == s.LEADERBOARD_HEAD IN
              IF IsSome(head) /\ Rewards(s, Unwrap(head)) >= rewards
              THEN insert_searching_down(s, code, rewards, Unwrap(head))
              ELSE insert_at_position(s, code, None, head)

insert_into_leaderboard_with_hint(s, code, rewards, hint) ==
    IF ~IsSome(hint) THEN insert_into_leaderboard(s, code, rewards)
    ELSE LET insert_after == Unwrap(hint).insert_after IN
         IF IsSome(insert_after)
         THEN LET after_code == Unwrap(insert_after)
                  after_opt == MapMayLoad(s.LEADERBOARD_LINKS, after_code)
              IN  IF ~IsSome(after_opt)
                  THEN insert_into_leaderboard(s, code, rewards)
                  ELSE LET after_link == Unwrap(after_opt) IN
                       IF Rewards(s, after_code) >= rewards
                       THEN IF IsSome(after_link.next)
                               /\ Rewards(s, Unwrap(after_link.next)) >= rewards
                            THEN insert_searching_down(s, code, rewards,
                                                       Unwrap(after_link.next))
                            ELSE insert_at_position(s, code, Some(after_code),
                                                    after_link.next)
                       ELSE insert_into_leaderboard_from_position(
                                s, code, rewards, Some(after_code))
         ELSE LET head == s.LEADERBOARD_HEAD IN
              IF IsSome(head) /\ Rewards(s, Unwrap(head)) >= rewards
              THEN insert_searching_down(s, code, rewards, Unwrap(head))
              ELSE insert_at_position(s, code, None, head)
\* variant: a full list takes the new code without detaching the tail
try_insert_into_leaderboard_no_evict(s, code, rewards, hint) ==
    LET size == s.LEADERBOARD_SIZE IN
    IF size < MAX_LEADERBOARD_SIZE
    THEN LET s1 == insert_into_leaderboard_with_hint(s, code, rewards, hint)
         IN  [s |-> [s1 EXCEPT !.LEADERBOARD_SIZE = size + 1], inserted |-> TRUE]
    ELSE LET tail == s.LEADERBOARD_TAIL IN
         IF IsSome(tail) /\ rewards > Rewards(s, Unwrap(tail))
         THEN [s |-> insert_into_leaderboard_with_hint(s, code, rewards, hint),
               inserted |-> TRUE]
         ELSE [s |-> s, inserted |-> FALSE]
\* variant: a full list admits a reward equal to the tail's
try_insert_into_leaderboard_on_tie(s, code, rewards, hint) ==
    LET size == s.LEADERBOARD_SIZE IN
    IF size < MAX_LEADERBOARD_SIZE
    THEN LET s1 == insert_into_leaderboard_with_hint(s, code, rewards, hint)
         IN  [s |-> [s1 EXCEPT !.LEADERBOARD_SIZE = size + 1], inserted |-> TRUE]
    ELSE LET tail == s.LEADERBOARD_TAIL IN
         IF IsSome(tail) /\ rewards >= Rewards(s, Unwrap(tail))
         THEN LET tail_code == Unwrap(tail)
                  tail_link == MapLoad(s.LEADERBOARD_LINKS, tail_code)
                  tail_prev == tail_link.prev
                  s1 == remove_from_leaderboard_internal(s, tail_code, tail_link)
                  s2 == [s1 EXCEPT !.LEADERBOARD_TAIL = tail_prev]
                  effective_hint ==
                      IF IsSome(hint) /\ Unwrap(hint).insert_after = Some(tail_code)
                      THEN IF IsSome(tail_prev)
                           THEN Some([insert_after |-> Some(Unwrap(tail_prev))])
                           ELSE None
                      ELSE hint
              IN  Only({[s |-> insert_into_leaderboard_with_hint(
                                  t, code, rewards, effective_hint),
                         inserted |-> TRUE] : t \in {s2}})
         ELSE [s |-> s, inserted |-> FALSE]
\* variant: the comparison with the tail's reward is inverted
try_insert_into_leaderboard_inverted(s, code, rewards, hint) ==
    LET size == s.LEADERBOARD_SIZE IN
    IF size < MAX_LEADERBOARD_SIZE
    THEN LET s1 == insert_into_leaderboard_with_hint(s, code, rewards, hint)
         IN  [s |-> [s1 EXCEPT !.LEADERBOARD_SIZE = size + 1], inserted |-> TRUE]
    ELSE LET tail == s.LEADERBOARD_TAIL IN
         IF IsSome(tail) /\ rewards < Rewards(s, Unwrap(tail))
         THEN LET tail_code == Unwrap(tail)
                  tail_link == MapLoad(s.LEADERBOARD_LINKS, tail_code)
                  tail_prev == tail_link.prev
                  s1 == remove_from_leaderboard_internal(s, tail_code, tail_link)
                  s2 == [s1 EXCEPT !.LEADERBOARD_TAIL = tail_prev]
                  effective_hint ==
                      IF IsSome(hint) /\ Unwrap(hint).insert_after = Some(tail_code)
                      THEN IF IsSome(tail_prev)
                           THEN Some([insert_after |-> Some(Unwrap(tail_prev))])
                           ELSE None
                      ELSE hint
              IN  Only({[s |-> insert_into_leaderboard_with_hint(
                                  t, code, rewards, effective_hint),
                         inserted |-> TRUE] : t \in {s2}})
         ELSE [s |-> s, inserted |-> FALSE]

\* variant: a full list takes the new code first and then evicts the old tail
\* by deleting its link row only, without unlinking it
try_insert_into_leaderboard_drop_row(s, code, rewards, hint) ==
    LET size == s.LEADERBOARD_SIZE IN
    IF size < MAX_LEADERBOARD_SIZE
    THEN LET s1 == insert_into_leaderboard_with_hint(s, code, rewards, hint)
         IN  [s |-> [s1 EXCEPT !.LEADERBOARD_SIZE = size + 1], inserted |-> TRUE]
    ELSE LET tail == s.LEADERBOARD_TAIL IN
         IF IsSome(tail)
         THEN LET tail_code == Unwrap(tail) IN
              IF rewards > Rewards(s, tail_code)
              THEN Only({[s |-> [s1 EXCEPT !.LEADERBOARD_LINKS = MapRemove(@, tail_code)],
                          inserted |-> TRUE] :
                         s1 \in {insert_into_leaderboard_with_hint(s, code, rewards, hint)}})
              ELSE [s |-> s, inserted |-> FALSE]
         ELSE [s |-> s, inserted |-> FALSE]

\* returns [s |-> storage, inserted |-> BOOLEAN]
try_insert_into_leaderboard(s, code, rewards, hint) ==
    LET size == s.LEADERBOARD_SIZE IN
    IF size < MAX_LEADERBOARD_SIZE
    THEN LET s1 == insert_into_leaderboard_with_hint(s, code, rewards, hint)
         IN  [s |-> [s1 EXCEPT !.LEADERBOARD_SIZE = size + 1], inserted |-> TRUE]
    ELSE LET tail == s.LEADERBOARD_TAIL IN
         IF IsSome(tail)
         THEN LET tail_code == Unwrap(tail) IN
              IF rewards > Rewards(s, tail_code)
              THEN LET tail_link == MapLoad(s.LEADERBOARD_LINKS, tail_code)
                       tail_prev == tail_link.prev
                       s1 == remove_from_leaderboard_internal(s, tail_code, tail_link)
                       s2 == [s1 EXCEPT !.LEADERBOARD_TAIL = tail_prev]
                       effective_hint ==
                           IF IsSome(hint) /\ Unwrap(hint).insert_after = Some(tail_code)
                           THEN IF IsSome(tail_prev)
                                THEN Some([insert_after |-> Some(Unwrap(tail_prev))])
                                ELSE None
                           ELSE hint
                   IN  Only({[s |-> insert_into_leaderboard_with_hint(
                                       t, code, rewards, effective_hint),
                              inserted |-> TRUE] : t \in {s2}})
              ELSE [s |-> s, inserted |-> FALSE]
         ELSE [s |-> s, inserted |-> FALSE]
\* variant: a listed code is also moved when its total equals its predecessor's
update_leaderboard_move_on_tie(s, code, new_rewards, hint) ==
    LET link_opt == MapMayLoad(s.LEADERBOARD_LINKS, code)
        needs_move == IF IsSome(link_opt) /\ IsSome(Unwrap(link_opt).prev)
                      THEN new_rewards >= Rewards(s, Unwrap(Unwrap(link_opt).prev))
                      ELSE FALSE
    IN  IF IsSome(link_opt) /\ ~needs_move
        THEN [s |-> s,
              change |-> Some([action |-> "NoChange",
                               position |-> get_leaderboard_position(s, code)])]
        ELSE LET was_in_leaderboard == IsSome(link_opt)
                 s1 == IF was_in_leaderboard
                       THEN LET r == remove_from_leaderboard_internal(
                                         s, code, Unwrap(link_opt))
                            IN  [r EXCEPT !.LEADERBOARD_SIZE = saturating_sub(@, 1)]
                       ELSE s
             IN  Only({IF ins.inserted
                       THEN [s |-> ins.s,
                             change |-> Some([action |-> IF was_in_leaderboard
                                                         THEN "PositionUp" ELSE "NewEntry",
                                              position |->
                                                  get_leaderboard_position(ins.s, code)])]
                       ELSE [s |-> ins.s, change |-> None] :
                       ins \in {try_insert_into_leaderboard(t, code, new_rewards, hint) :
                                   t \in {s1}}})

\* variant: a repositioned code is detached without decrementing the size
update_leaderboard_keep_size(s, code, new_rewards, hint) ==
    LET link_opt == MapMayLoad(s.LEADERBOARD_LINKS, code)
        needs_move == IF IsSome(link_opt) /\ IsSome(Unwrap(link_opt).prev)
                      THEN new_rewards > Rewards(s, Unwrap(Unwrap(link_opt).prev))
                      ELSE FALSE
    IN  IF IsSome(link_opt) /\ ~needs_move
        THEN [s |-> s,
              change |-> Some([action |-> "NoChange",
                               position |-> get_leaderboard_position(s, code)])]
        ELSE LET was_in_leaderboard == IsSome(link_opt)
                 s1 == IF was_in_leaderboard
                       THEN remove_from_leaderboard_internal(s, code, Unwrap(link_opt))
                       ELSE s
             IN  Only({IF ins.inserted
                       THEN [s |-> ins.s,
                             change |-> Some([action |-> IF was_in_leaderboard
                                                         THEN "PositionUp" ELSE "NewEntry",
                                              position |->
                                                  get_leaderboard_position(ins.s, code)])]
                       ELSE [s |-> ins.s, change |-> None] :
                       ins \in {try_insert_into_leaderboard(t, code, new_rewards, hint) :
                                   t \in {s1}}})

\* variant: a repositioned code is reported at the position it had before the move
update_leaderboard_stale_position(s, code, new_rewards, hint) ==
    LET link_opt == MapMayLoad(s.LEADERBOARD_LINKS, code)
        needs_move == IF IsSome(link_opt) /\ IsSome(Unwrap(link_opt).prev)
                      THEN new_rewards > Rewards(s, Unwrap(Unwrap(link_opt).prev))
                      ELSE FALSE
    IN  IF IsSome(link_opt) /\ ~needs_move
        THEN [s |-> s,
              change |-> Some([action |-> "NoChange",
                               position |-> get_leaderboard_position(s, code)])]
        ELSE LET was_in_leaderboard == IsSome(link_opt)
                 s1 == IF was_in_leaderboard
                       THEN LET r == remove_from_leaderboard_internal(
                                         s, code, Unwrap(link_opt))
                            IN  [r EXCEPT !.LEADERBOARD_SIZE = saturating_sub(@, 1)]
                       ELSE s
             IN  Only({IF ins.inserted
                       THEN [s |-> ins.s,
                             change |-> Some([action |-> IF was_in_leaderboard
                                                         THEN "PositionUp" ELSE "NewEntry",
                                              position |->
                                                  IF was_in_leaderboard
                                                  THEN get_leaderboard_position(s, code)
                                                  ELSE get_leaderboard_position(ins.s, code)])]
                       ELSE [s |-> ins.s, change |-> None] :
                       ins \in {try_insert_into_leaderboard(t, code, new_rewards, hint) :
                                   t \in {s1}}})

\* returns [s |-> storage, change |-> Option<[action, position]>]
update_leaderboard(s, code, new_rewards, hint) ==
    LET link_opt == MapMayLoad(s.LEADERBOARD_LINKS, code)
        needs_move == IF IsSome(link_opt) /\ IsSome(Unwrap(link_opt).prev)
                      THEN new_rewards > Rewards(s, Unwrap(Unwrap(link_opt).prev))
                      ELSE FALSE
    IN  IF IsSome(link_opt) /\ ~needs_move
        THEN [s |-> s,
              change |-> Some([action |-> "NoChange",
                               position |-> get_leaderboard_position(s, code)])]
        ELSE LET was_in_leaderboard == IsSome(link_opt)
                 s1 == IF was_in_leaderboard
                       THEN LET r == remove_from_leaderboard_internal(
                                         s, code, Unwrap(link_opt))
                            IN  [r EXCEPT !.LEADERBOARD_SIZE = saturating_sub(@, 1)]
                       ELSE s
             IN  Only({IF ins.inserted
                       THEN [s |-> ins.s,
                             change |-> Some([action |-> IF was_in_leaderboard
                                                         THEN "PositionUp" ELSE "NewEntry",
                                              position |->
                                                  get_leaderboard_position(ins.s, code)])]
                       ELSE [s |-> ins.s, change |-> None] :
                       ins \in {try_insert_into_leaderboard(t, code, new_rewards, hint) :
                                   t \in {s1}}})

(* ------------------------------- Swap --------------------------------- *)

SwapFail(e, s) ==
    [err |-> e, s |-> s, messages |-> <<>>, change |-> None, code |-> None,
     rate |-> 0, base_ustr |-> 0, user_bonus |-> 0, referrer_bonus |-> 0,
     total_ustr_to_user |-> 0, total_ustr_minted |-> 0]

\* variant: the referrer is paid 10% of what the user receives, bonus included
ProcessReferral_compound(referral_code, validate, base_ustr) ==
    IF ~IsSome(referral_code) \/ Unwrap(referral_code) = ""
    THEN [err |-> "Ok", user_bonus |-> 0, referrer_bonus |-> 0, referrer_addr |-> None]
    ELSE IF ~validate.ok
    THEN [err |-> "Std", user_bonus |-> 0, referrer_bonus |-> 0, referrer_addr |-> None]
    ELSE IF ~validate.is_valid_format
    THEN [err |-> "InvalidReferralCode", user_bonus |-> 0, referrer_bonus |-> 0,
          referrer_addr |-> None]
    ELSE IF ~validate.is_registered
    THEN [err |-> "ReferralCodeNotRegistered", user_bonus |-> 0, referrer_bonus |-> 0,
          referrer_addr |-> None]
    ELSE LET bonus == multiply_ratio(base_ustr, REFERRAL_BONUS_NUMERATOR,
                                     REFERRAL_BONUS_DENOMINATOR)
         IN  [err |-> "Ok", user_bonus |-> bonus,
              referrer_bonus |-> multiply_ratio(base_ustr + bonus,
                                                REFERRAL_BONUS_NUMERATOR,
                                                REFERRAL_BONUS_DENOMINATOR),
              referrer_addr |-> validate.owner]
\* lines 257-289: the referral branch; err # "Ok" is an early return
ProcessReferral(referral_code, validate, base_ustr) ==
    IF ~IsSome(referral_code) \/ Unwrap(referral_code) = ""
    THEN [err |-> "Ok", user_bonus |-> 0, referrer_bonus |-> 0, referrer_addr |-> None]
    ELSE IF ~validate.ok
    THEN [err |-> "Std", user_bonus |-> 0, referrer_bonus |-> 0, referrer_addr |-> None]
    ELSE IF ~validate.is_valid_format
    THEN [err |-> "InvalidReferralCode", user_bonus |-> 0, referrer_bonus |-> 0,
          referrer_addr |-> None]
    ELSE IF ~validate.is_registered
    THEN [err |-> "ReferralCodeNotRegistered", user_bonus |-> 0, referrer_bonus |-> 0,
          referrer_addr |-> None]
    ELSE LET bonus == multiply_ratio(base_ustr, REFERRAL_BONUS_NUMERATOR,
                                     REFERRAL_BONUS_DENOMINATOR)
         IN  [err |-> "Ok", user_bonus |-> bonus, referrer_bonus |-> bonus,
              referrer_addr |-> validate.owner]

\* variant: the ledger row is keyed by the code as the sender typed it
RecordSwap_as_typed(s, ustc_amount, total_ustr_minted, ref, referral_code, leaderboard_hint) ==
    LET stats0 == [s.STATS EXCEPT
                     !.total_ustc_received = @ + ustc_amount,
                     !.total_ustr_minted = @ + total_ustr_minted]
    IN  IF IsSome(ref.referrer_addr)
        THEN LET stats1 == [stats0 EXCEPT
                              !.total_referral_bonus_minted =
                                  @ + ref.user_bonus + ref.referrer_bonus,
                              !.total_referral_swaps = @ + 1]
             IN  IF IsSome(referral_code)
                 THEN LET normalized_code == Unwrap(referral_code)
                          existing == MapMayLoad(s.REFERRAL_CODE_STATS, normalized_code)
                          is_new_code == ~IsSome(existing)
                          loaded == IF is_new_code
                                    THEN [total_rewards_earned |-> 0,
                                          total_user_bonuses |-> 0,
                                          total_swaps |-> 0]
                                    ELSE Unwrap(existing)
                          code_stats == [total_rewards_earned |->
                                             loaded.total_rewards_earned + ref.referrer_bonus,
                                         total_user_bonuses |->
                                             loaded.total_user_bonuses + ref.user_bonus,
                                         total_swaps |-> loaded.total_swaps + 1]
                          s1 == [s EXCEPT !.REFERRAL_CODE_STATS =
                                   MapSave(@, normalized_code, code_stats)]
                          stats2 == IF is_new_code
                                    THEN [stats1 EXCEPT !.unique_referral_codes_used = @ + 1]
                                    ELSE stats1
                      IN  Only({[s |-> [upd.s EXCEPT !.STATS = stats2],
                                 change |-> upd.change, code |-> Some(normalized_code)] :
                                upd \in {update_leaderboard(t, normalized_code, r,
                                                            leaderboard_hint) :
                                           t \in {s1},
                                           r \in {code_stats.total_rewards_earned}}})
                 ELSE [s |-> [s EXCEPT !.STATS = stats1], change |-> None, code |-> None]
        ELSE [s |-> [s EXCEPT !.STATS = stats0], change |-> None, code |-> None]
\* variant: every referred swap counts its code as a new one
RecordSwap_recount(s, ustc_amount, total_ustr_minted, ref, referral_code, leaderboard_hint) ==
    LET stats0 == [s.STATS EXCEPT
                     !.total_ustc_received = @ + ustc_amount,
                     !.total_ustr_minted = @ + total_ustr_minted]
    IN  IF IsSome(ref.referrer_addr)
        THEN LET stats1 == [stats0 EXCEPT
                              !.total_referral_bonus_minted =
                                  @ + ref.user_bonus + ref.referrer_bonus,
                              !.total_referral_swaps = @ + 1]
             IN  IF IsSome(referral_code)
                 THEN LET normalized_code == to_lowercase(Unwrap(referral_code))
                          existing == MapMayLoad(s.REFERRAL_CODE_STATS, normalized_code)
                          is_new_code == ~IsSome(existing)
                          loaded == IF is_new_code
                                    THEN [total_rewards_earned |-> 0,
                                          total_user_bonuses |-> 0,
                                          total_swaps |-> 0]
                                    ELSE Unwrap(existing)
                          code_stats == [total_rewards_earned |->
                                             loaded.total_rewards_earned + ref.referrer_bonus,
                                         total_user_bonuses |->
                                             loaded.total_user_bonuses + ref.user_bonus,
                                         total_swaps |-> loaded.total_swaps + 1]
                          s1 == [s EXCEPT !.REFERRAL_CODE_STATS =
                                   MapSave(@, normalized_code, code_stats)]
                          stats2 == [stats1 EXCEPT !.unique_referral_codes_used = @ + 1]
                      IN  Only({[s |-> [upd.s EXCEPT !.STATS = stats2],
                                 change |-> upd.change, code |-> Some(normalized_code)] :
                                upd \in {update_leaderboard(t, normalized_code, r,
                                                            leaderboard_hint) :
                                           t \in {s1},
                                           r \in {code_stats.total_rewards_earned}}})
                 ELSE [s |-> [s EXCEPT !.STATS = stats1], change |-> None, code |-> None]
        ELSE [s |-> [s EXCEPT !.STATS = stats0], change |-> None, code |-> None]
\* lines 312-363: ledger and leaderboard writes of a swap that passed every check
RecordSwap(s, ustc_amount, total_ustr_minted, ref, referral_code, leaderboard_hint) ==
    LET stats0 == [s.STATS EXCEPT
                     !.total_ustc_received = @ + ustc_amount,
                     !.total_ustr_minted = @ + total_ustr_minted]
    IN  IF IsSome(ref.referrer_addr)
        THEN LET stats1 == [stats0 EXCEPT
                              !.total_referral_bonus_minted =
                                  @ + ref.user_bonus + ref.referrer_bonus,
                              !.total_referral_swaps = @ + 1]
             IN  IF IsSome(referral_code)
                 THEN LET normalized_code == to_lowercase(Unwrap(referral_code))
                          existing == MapMayLoad(s.REFERRAL_CODE_STATS, normalized_code)
                          is_new_code == ~IsSome(existing)
                          loaded == IF is_new_code
                                    THEN [total_rewards_earned |-> 0,
                                          total_user_bonuses |-> 0,
                                          total_swaps |-> 0]
                                    ELSE Unwrap(existing)
                          code_stats == [total_rewards_earned |->
                                             loaded.total_rewards_earned + ref.referrer_bonus,
                                         total_user_bonuses |->
                                             loaded.total_user_bonuses + ref.user_bonus,
                                         total_swaps |-> loaded.total_swaps + 1]
                          s1 == [s EXCEPT !.REFERRAL_CODE_STATS =
                                   MapSave(@, normalized_code, code_stats)]
                          stats2 == IF is_new_code
                                    THEN [stats1 EXCEPT !.unique_referral_codes_used = @ + 1]
                                    ELSE stats1
                      IN  Only({[s |-> [upd.s EXCEPT !.STATS = stats2],
                                 change |-> upd.change, code |-> Some(normalized_code)] :
                                upd \in {update_leaderboard(t, normalized_code, r,
                                                            leaderboard_hint) :
                                           t \in {s1},
                                           r \in {code_stats.total_rewards_earned}}})
                 ELSE [s |-> [s EXCEPT !.STATS = stats1], change |-> None, code |-> None]
        ELSE [s |-> [s EXCEPT !.STATS = stats0], change |-> None, code |-> None]
\* variant: the ledger and the leaderboard are written before the token query
\* and the safety cap are checked, and a failure returns what was written
MintWithinCap_after_save(s, info, ustc_amount, rate, base_ustr, ref, referral_code, leaderboard_hint, token_info) ==
    LET total_ustr_to_user == base_ustr + ref.user_bonus
        total_ustr_minted == total_ustr_to_user + ref.referrer_bonus
        mint_to_user == [recipient |-> info.sender, amount |-> total_ustr_to_user]
        mint_to_referrer ==
            IF IsSome(ref.referrer_addr) /\ ref.referrer_bonus > 0
            THEN <<[recipient |-> Unwrap(ref.referrer_addr), amount |-> ref.referrer_bonus]>>
            ELSE <<>>
    IN  Only({IF ~token_info.ok THEN SwapFail("Std", rec.s)
              ELSE IF total_ustr_minted >
                        multiply_ratio(token_info.total_supply,
                                       MINT_SAFETY_LIMIT_NUMERATOR,
                                       MINT_SAFETY_LIMIT_DENOMINATOR)
              THEN SwapFail("MintExceedsSafetyLimit", rec.s)
              ELSE [err |-> "Ok", s |-> rec.s,
                    messages |-> <<mint_to_user>> \o mint_to_referrer,
                    change |-> rec.change, code |-> rec.code,
                    rate |-> rate, base_ustr |-> base_ustr, user_bonus |-> ref.user_bonus,
                    referrer_bonus |-> ref.referrer_bonus,
                    total_ustr_to_user |-> total_ustr_to_user,
                    total_ustr_minted |-> total_ustr_minted] :
              rec \in {RecordSwap(s, ustc_amount, total_ustr_minted, ref, referral_code,
                                  leaderboard_hint)}})

\* variant: a mint equal to the safety cap is refused as well
MintWithinCap_cap_exclusive(s, info, ustc_amount, rate, base_ustr, ref, referral_code, leaderboard_hint, token_info) ==
    LET total_ustr_to_user == base_ustr + ref.user_bonus
        total_ustr_minted == total_ustr_to_user + ref.referrer_bonus
    IN
    IF ~token_info.ok THEN SwapFail("Std", s)
    ELSE IF total_ustr_minted >=
              multiply_ratio(token_info.total_supply, MINT_SAFETY_LIMIT_NUMERATOR,
                             MINT_SAFETY_LIMIT_DENOMINATOR)
    THEN [SwapFail("MintExceedsSafetyLimit", s)
            EXCEPT !.total_ustr_minted = total_ustr_minted]
    ELSE
    LET mint_to_user == [recipient |-> info.sender, amount |-> total_ustr_to_user]
        mint_to_referrer ==
            IF IsSome(ref.referrer_addr) /\ ref.referrer_bonus > 0
            THEN <<[recipient |-> Unwrap(ref.referrer_addr), amount |-> ref.referrer_bonus]>>
            ELSE <<>>
    IN  Only({[err |-> "Ok", s |-> rec.s,
               messages |-> <<mint_to_user>> \o mint_to_referrer,
               change |-> rec.change, code |-> rec.code,
               rate |-> rate, base_ustr |-> base_ustr, user_bonus |-> ref.user_bonus,
               referrer_bonus |-> ref.referrer_bonus,
               total_ustr_to_user |-> total_ustr_to_user,
               total_ustr_minted |-> total_ustr_minted] :
              rec \in {RecordSwap(s, ustc_amount, total_ustr_minted, ref, referral_code,
                                  leaderboard_hint)}})
\* lines 291-402 of execute_swap: the totals, the token query and the mint
\* safety cap, then the writes and the mint messages
MintWithinCap(s, info, ustc_amount, rate, base_ustr, ref, referral_code, leaderboard_hint, token_info) ==
    LET total_ustr_to_user == base_ustr + ref.user_bonus
        total_ustr_minted == total_ustr_to_user + ref.referrer_bonus
    IN
    IF ~token_info.ok THEN SwapFail("Std", s)
    ELSE IF total_ustr_minted >
              multiply_ratio(token_info.total_supply, MINT_SAFETY_LIMIT_NUMERATOR,
                             MINT_SAFETY_LIMIT_DENOMINATOR)
    THEN [SwapFail("MintExceedsSafetyLimit", s)
            EXCEPT !.total_ustr_minted = total_ustr_minted]
    ELSE
    LET mint_to_user == [recipient |-> info.sender, amount |-> total_ustr_to_user]
        mint_to_referrer ==
            IF IsSome(ref.referrer_addr) /\ ref.referrer_bonus > 0
            THEN <<[recipient |-> Unwrap(ref.referrer_addr), amount |-> ref.referrer_bonus]>>
            ELSE <<>>
    IN  Only({[err |-> "Ok", s |-> rec.s,
               messages |-> <<mint_to_user>> \o mint_to_referrer,
               change |-> rec.change, code |-> rec.code,
               rate |-> rate, base_ustr |-> base_ustr, user_bonus |-> ref.user_bonus,
               referrer_bonus |-> ref.referrer_bonus,
               total_ustr_to_user |-> total_ustr_to_user,
               total_ustr_minted |-> total_ustr_minted] :
              rec \in {RecordSwap(s, ustc_amount, total_ustr_minted, ref, referral_code,
                                  leaderboard_hint)}})

\* variant: the amount is scaled by the decimal adjustment before it is
\* divided by the rate, floor(ustc_amount * adjustment / rate)
execute_swap_scale_first(s, time, info, referral_code, leaderboard_hint, validate, token_info) ==
    LET config == s.CONFIG IN
    IF config.paused THEN SwapFail("SwapPaused", s)
    ELSE IF time < config.start_time THEN SwapFail("SwapNotStarted", s)
    ELSE IF time >= config.end_time THEN SwapFail("SwapEnded", s)
    ELSE IF Len(info.funds) = 0 THEN SwapFail("NoFundsSent", s)
    ELSE IF Len(info.funds) > 1 THEN SwapFail("MultipleDenoms", s)
    ELSE IF info.funds[1].denom # USTC_DENOM THEN SwapFail("WrongDenom", s)
    ELSE IF info.funds[1].amount < MIN_SWAP_AMOUNT THEN SwapFail("BelowMinimumSwap", s)
    ELSE IF calculate_current_rate_panics(config) THEN SwapFail("Panic", s)
    ELSE
    LET ustc_amount == info.funds[1].amount
        rate == calculate_current_rate(config, time)
        base_ustr == multiply_ratio(ustc_amount * DECIMAL_ADJUSTMENT,
                                    DECIMAL_FRACTIONAL, rate)
    IN
    Only({IF ref.err # "Ok" THEN SwapFail(ref.err, s)
          ELSE MintWithinCap(s, info, ustc_amount, rate, b, ref, referral_code,
                             leaderboard_hint, token_info) :
          b \in {base_ustr},
          ref \in {ProcessReferral(referral_code, validate, base_ustr)}})
\* variant: a Swap in the block whose time is exactly end_time is still served
execute_swap_end_inclusive(s, time, info, referral_code, leaderboard_hint, validate, token_info) ==
    LET config == s.CONFIG IN
    IF config.paused THEN SwapFail("SwapPaused", s)
    ELSE IF time < config.start_time THEN SwapFail("SwapNotStarted", s)
    ELSE IF time > config.end_time THEN SwapFail("SwapEnded", s)
    ELSE IF Len(info.funds) = 0 THEN SwapFail("NoFundsSent", s)
    ELSE IF Len(info.funds) > 1 THEN SwapFail("MultipleDenoms", s)
    ELSE IF info.funds[1].denom # USTC_DENOM THEN SwapFail("WrongDenom", s)
    ELSE IF info.funds[1].amount < MIN_SWAP_AMOUNT THEN SwapFail("BelowMinimumSwap", s)
    ELSE IF calculate_current_rate_panics(config) THEN SwapFail("Panic", s)
    ELSE
    LET ustc_amount == info.funds[1].amount
        rate == calculate_current_rate(config, time)
        ustc_decimal == Decimal_from_ratio(ustc_amount, 1)
        ustr_decimal == Decimal_div(ustc_decimal, rate)
        base_ustr_unscaled == Decimal_mul_uint(ustr_decimal, 1)
        base_ustr == base_ustr_unscaled * DECIMAL_ADJUSTMENT
    IN
    Only({IF ref.err # "Ok" THEN SwapFail(ref.err, s)
          ELSE MintWithinCap(s, info, ustc_amount, rate, b, ref, referral_code,
                             leaderboard_hint, token_info) :
          b \in {base_ustr},
          ref \in {ProcessReferral(referral_code, validate, base_ustr)}})
\* info = [sender, funds]; validate and token_info are the querier's answers
execute_swap(s, time, info, referral_code, leaderboard_hint, validate, token_info) ==
    LET config == s.CONFIG IN
    IF config.paused THEN SwapFail("SwapPaused", s)
    ELSE IF time < config.start_time THEN SwapFail("SwapNotStarted", s)
    ELSE IF time >= config.end_time THEN SwapFail("SwapEnded", s)
    ELSE IF Len(info.funds) = 0 THEN SwapFail("NoFundsSent", s)
    ELSE IF Len(info.funds) > 1 THEN SwapFail("MultipleDenoms", s)
    ELSE IF info.funds[1].denom # USTC_DENOM THEN SwapFail("WrongDenom", s)
    ELSE IF info.funds[1].amount < MIN_SWAP_AMOUNT THEN SwapFail("BelowMinimumSwap", s)
    ELSE IF calculate_current_rate_panics(config) THEN SwapFail("Panic", s)
    ELSE
    LET ustc_amount == info.funds[1].amount
        rate == calculate_current_rate(config, time)
        ustc_decimal == Decimal_from_ratio(ustc_amount, 1)
        ustr_decimal == Decimal_div(ustc_decimal, rate)
        base_ustr_unscaled == Decimal_mul_uint(ustr_decimal, 1)
        base_ustr == base_ustr_unscaled * DECIMAL_ADJUSTMENT
    IN
    Only({IF ref.err # "Ok" THEN SwapFail(ref.err, s)
          ELSE MintWithinCap(s, info, ustc_amount, rate, b, ref, referral_code,
                             leaderboard_hint, token_info) :
          b \in {base_ustr},
          ref \in {ProcessReferral(referral_code, validate, base_ustr)}})

(* -------------------------- pause / resume ---------------------------- *)

\* returns [err, s]
execute_emergency_pause(s, sender) ==
    IF sender # s.CONFIG.admin THEN [err |-> "Unauthorized", s |-> s]
    ELSE [err |-> "Ok", s |-> [s EXCEPT !.CONFIG.paused = TRUE]]

execute_emergency_resume(s, sender) ==
    IF sender # s.CONFIG.admin THEN [err |-> "Unauthorized", s |-> s]
    ELSE [err |-> "Ok", s |-> [s EXCEPT !.CONFIG.paused = FALSE]]

(* --------------------------- SwapSimulation --------------------------- *)

SimulationFail(e) ==
    [err |-> e, ustc_amount |-> 0, base_ustr_amount |-> 0, user_bonus |-> 0,
     referrer_bonus |-> 0, total_ustr_to_user |-> 0, rate |-> 0,
     referral_valid |-> FALSE]

\* variant: the bonus is taken from the unscaled quotient and scaled afterwards
query_swap_simulation_bonus_unscaled(s, time, ustc_amount, referral_code, validate) ==
    LET config == s.CONFIG IN
    IF calculate_current_rate_panics(config) THEN SimulationFail("Panic")
    ELSE
    LET rate == calculate_current_rate(config, time)
        ustc_decimal == Decimal_from_ratio(ustc_amount, 1)
        ustr_decimal == Decimal_div(ustc_decimal, rate)
        base_ustr_unscaled == Decimal_mul_uint(ustr_decimal, 1)
        base_ustr_amount == base_ustr_unscaled * DECIMAL_ADJUSTMENT
        referral_valid ==
            /\ IsSome(referral_code)
            /\ Unwrap(referral_code) # ""
            /\ validate.ok
            /\ validate.is_valid_format
            /\ validate.is_registered
        bonus == IF referral_valid
                 THEN ((base_ustr_unscaled * REFERRAL_BONUS_NUMERATOR)
                          \div REFERRAL_BONUS_DENOMINATOR) * DECIMAL_ADJUSTMENT
                 ELSE 0
    IN  [err |-> "Ok", ustc_amount |-> ustc_amount,
         base_ustr_amount |-> base_ustr_amount,
         user_bonus |-> bonus, referrer_bonus |-> bonus,
         total_ustr_to_user |-> base_ustr_amount + bonus,
         rate |-> rate, referral_valid |-> referral_valid]
\* validate is the referral contract's answer to ValidateCode; a failed query
\* (validate.ok = FALSE) is answered as an invalid code
query_swap_simulation(s, time, ustc_amount, referral_code, validate) ==
    LET config == s.CONFIG IN
    IF calculate_current_rate_panics(config) THEN SimulationFail("Panic")
    ELSE
    LET rate == calculate_current_rate(config, time)
        ustc_decimal == Decimal_from_ratio(ustc_amount, 1)
        ustr_decimal == Decimal_div(ustc_decimal, rate)
        base_ustr_unscaled == Decimal_mul_uint(ustr_decimal, 1)
        base_ustr_amount == base_ustr_unscaled * DECIMAL_ADJUSTMENT
        referral_valid ==
            /\ IsSome(referral_code)
            /\ Unwrap(referral_code) # ""
            /\ validate.ok
            /\ validate.is_valid_format
            /\ validate.is_registered
        bonus == IF referral_valid
                 THEN (base_ustr_amount * REFERRAL_BONUS_NUMERATOR)
                          \div REFERRAL_BONUS_DENOMINATOR
                 ELSE 0
    IN  [err |-> "Ok", ustc_amount |-> ustc_amount,
         base_ustr_amount |-> base_ustr_amount,
         user_bonus |-> bonus, referrer_bonus |-> bonus,
         total_ustr_to_user |-> base_ustr_amount + bonus,
         rate |-> rate, referral_valid |-> referral_valid]

(* ------------- ProposeAdmin, AcceptAdmin, CancelAdminProposal --------- *)

ADMIN_TIMELOCK_DURATION == 604800

\* Api::addr_validate on the addresses the model uses: the empty string is
\* not an address
addr_validate(human) == human # ""

\* variant: a proposal made while one is pending keeps the pending timelock
execute_propose_admin_keep_timelock(s, time, sender, new_admin) ==
    LET config == s.CONFIG IN
    IF sender # config.admin THEN [err |-> "Unauthorized", s |-> s]
    ELSE IF ~addr_validate(new_admin) THEN [err |-> "Std", s |-> s]
    ELSE LET pending == [new_address |-> new_admin,
                         execute_after |-> IF IsSome(s.PENDING_ADMIN)
                                           THEN Unwrap(s.PENDING_ADMIN).execute_after
                                           ELSE time + ADMIN_TIMELOCK_DURATION]
         IN  [err |-> "Ok", s |-> [s EXCEPT !.PENDING_ADMIN = Some(pending)]]
execute_propose_admin(s, time, sender, new_admin) ==
    LET config == s.CONFIG IN
    IF sender # config.admin THEN [err |-> "Unauthorized", s |-> s]
    ELSE IF ~addr_validate(new_admin) THEN [err |-> "Std", s |-> s]
    ELSE LET pending == [new_address |-> new_admin,
                         execute_after |-> time + ADMIN_TIMELOCK_DURATION]
         IN  [err |-> "Ok", s |-> [s EXCEPT !.PENDING_ADMIN = Some(pending)]]

\* variant: the proposal is accepted one second before execute_after
execute_accept_admin_early(s, time, sender) ==
    IF ~IsSome(s.PENDING_ADMIN) THEN [err |-> "NoPendingAdmin", s |-> s]
    ELSE LET pending == Unwrap(s.PENDING_ADMIN) IN
         IF sender # pending.new_address
         THEN [err |-> "UnauthorizedPendingAdmin", s |-> s]
         ELSE IF time + 1 < pending.execute_after
         THEN [err |-> "TimelockNotExpired", s |-> s]
         ELSE [err |-> "Ok",
               s |-> [s EXCEPT !.CONFIG.admin = pending.new_address,
                               !.PENDING_ADMIN = None]]
execute_accept_admin(s, time, sender) ==
    IF ~IsSome(s.PENDING_ADMIN) THEN [err |-> "NoPendingAdmin", s |-> s]
    ELSE LET pending == Unwrap(s.PENDING_ADMIN) IN
         IF sender # pending.new_address
         THEN [err |-> "UnauthorizedPendingAdmin", s |-> s]
         ELSE IF time < pending.execute_after
         THEN [err |-> "TimelockNotExpired", s |-> s]
         ELSE [err |-> "Ok",
               s |-> [s EXCEPT !.CONFIG.admin = pending.new_address,
                               !.PENDING_ADMIN = None]]

execute_cancel_admin_proposal(s, sender) ==
    IF sender # s.CONFIG.admin THEN [err |-> "Unauthorized", s |-> s]
    ELSE IF ~IsSome(s.PENDING_ADMIN) THEN [err |-> "NoPendingAdmin", s |-> s]
    ELSE [err |-> "Ok", s |-> [s EXCEPT !.PENDING_ADMIN = None]]

(* ---------------- ReferralCodeStats, ReferralLeaderboard -------------- *)

\* returns [err, code, owner, total_rewards_earned, total_user_bonuses,
\* total_swaps]; the ValidateCode query is unwrapped with `?`, so a failed
\* query ends the call
query_referral_code_stats(s, code, validate) ==
    LET normalized_code == to_lowercase(code)
        none == [err |-> "Ok", code |-> normalized_code, owner |-> "",
                 total_rewards_earned |-> 0, total_user_bonuses |-> 0,
                 total_swaps |-> 0]
    IN  IF ~validate.ok THEN [none EXCEPT !.err = "QueryFailed"]
        ELSE IF ~validate.is_registered THEN [none EXCEPT !.err = "NotRegistered"]
        ELSE IF ~IsSome(validate.owner) THEN [none EXCEPT !.err = "OwnerNotFound"]
        ELSE LET code_stats == IF IsSome(MapMayLoad(s.REFERRAL_CODE_STATS,
                                                    normalized_code))
                               THEN MapLoad(s.REFERRAL_CODE_STATS, normalized_code)
                               ELSE [total_rewards_earned |-> 0,
                                     total_user_bonuses |-> 0,
                                     total_swaps |-> 0]
             IN  [err |-> "Ok", code |-> normalized_code,
                  owner |-> Unwrap(validate.owner),
                  total_rewards_earned |-> code_stats.total_rewards_earned,
                  total_user_bonuses |-> code_stats.total_user_bonuses,
                  total_swaps |-> code_stats.total_swaps]

\* the loop that counts the ranks before start_after: the rank of the node
\* `normalized`, or one more than the length of the list when it is not met
RECURSIVE RankLoop(_, _, _, _)
RankLoop(s, current, normalized, rank) ==
    IF ~IsSome(current) \/ Unwrap(current) = normalized THEN rank
    ELSE RankLoop(s, MapLoad(s.LEADERBOARD_LINKS, Unwrap(current)).next,
                  normalized, rank + 1)

\* variant: a failed ValidateCode query ends the whole page
RECURSIVE EntriesLoop_strict(_, _, _, _, _, _)
EntriesLoop_strict(s, current, rank, count, limit, validate) ==
    IF ~IsSome(current) \/ count >= limit
    THEN [err |-> "Ok", entries |-> <<>>, current |-> current]
    ELSE IF ~validate.ok
    THEN [err |-> "QueryFailed", entries |-> <<>>, current |-> current]
    ELSE LET code == Unwrap(current)
             code_stats == MapLoad(s.REFERRAL_CODE_STATS, code)
             owner == IF validate.ok /\ IsSome(validate.owner)
                      THEN Unwrap(validate.owner) ELSE "unknown"
             link == MapLoad(s.LEADERBOARD_LINKS, code)
             rest == EntriesLoop_strict(s, link.next, rank + 1, count + 1, limit,
                                        validate)
         IN  [err |-> rest.err,
              entries |-> <<[code |-> code, owner |-> owner,
                             total_rewards_earned |-> code_stats.total_rewards_earned,
                             total_user_bonuses |-> code_stats.total_user_bonuses,
                             total_swaps |-> code_stats.total_swaps,
                             rank |-> rank]>> \o rest.entries,
              current |-> rest.current]
\* the loop that fills the page from `current`; `validate` is the referral
\* contract's answer to every ValidateCode of the call, a failed query or an
\* answer without owner gives the owner "unknown"; returns the entries and
\* the node the loop stopped before
RECURSIVE EntriesLoop(_, _, _, _, _, _)
EntriesLoop(s, current, rank, count, limit, validate) ==
    IF ~IsSome(current) \/ count >= limit
    THEN [err |-> "Ok", entries |-> <<>>, current |-> current]
    ELSE LET code == Unwrap(current)
             code_stats == MapLoad(s.REFERRAL_CODE_STATS, code)
             owner == IF validate.ok /\ IsSome(validate.owner)
                      THEN Unwrap(validate.owner) ELSE "unknown"
             link == MapLoad(s.LEADERBOARD_LINKS, code)
             rest == EntriesLoop(s, link.next, rank + 1, count + 1, limit,
                                 validate)
         IN  [err |-> rest.err,
              entries |-> <<[code |-> code, owner |-> owner,
                             total_rewards_earned |-> code_stats.total_rewards_earned,
                             total_user_bonuses |-> code_stats.total_user_bonuses,
                             total_swaps |-> code_stats.total_swaps,
                             rank |-> rank]>> \o rest.entries,
              current |-> rest.current]

\* variant: the page starts again at the start_after code itself
query_referral_leaderboard_from_start(s, start_after, limit, validate) ==
    LET lim == Min(IF IsSome(limit) THEN Unwrap(limit) ELSE DEFAULT_LEADERBOARD_LIMIT,
                   MAX_LEADERBOARD_LIMIT)
        normalized == IF IsSome(start_after) THEN to_lowercase(Unwrap(start_after))
                      ELSE ""
        link == IF IsSome(start_after)
                THEN MapMayLoad(s.LEADERBOARD_LINKS, normalized) ELSE None
        rank == IF IsSome(link)
                THEN RankLoop(s, s.LEADERBOARD_HEAD, normalized, 1)
                ELSE 1
        start_code == IF IsSome(link) THEN Some(normalized)
                      ELSE s.LEADERBOARD_HEAD
        page == EntriesLoop(s, start_code, rank, 0, lim, validate)
    IN  [err |-> page.err, entries |-> page.entries,
         has_more |-> IsSome(page.current)]
\* returns [err, entries, has_more]
query_referral_leaderboard(s, start_after, limit, validate) ==
    LET lim == Min(IF IsSome(limit) THEN Unwrap(limit) ELSE DEFAULT_LEADERBOARD_LIMIT,
                   MAX_LEADERBOARD_LIMIT)
        normalized == IF IsSome(start_after) THEN to_lowercase(Unwrap(start_after))
                      ELSE ""
        link == IF IsSome(start_after)
                THEN MapMayLoad(s.LEADERBOARD_LINKS, normalized) ELSE None
        rank == IF IsSome(link)
                THEN RankLoop(s, s.LEADERBOARD_HEAD, normalized, 1) + 1
                ELSE 1
        start_code == IF IsSome(link) THEN Unwrap(link).next
                      ELSE s.LEADERBOARD_HEAD
        page == EntriesLoop(s, start_code, rank, 0, lim, validate)
    IN  [err |-> page.err, entries |-> page.entries,
         has_more |-> IsSome(page.current)]

(* ---------------------------- instantiate ----------------------------- *)

DEFAULT_SWAP_DURATION == 8640000
EXPECTED_USTR_DECIMALS == 18

\* returns [err, s]; s is the storage a successful instantiate leaves
instantiate(msg, ustr_decimals) ==
    IF ustr_decimals # EXPECTED_USTR_DECIMALS
    THEN [err |-> "InvalidUstrDecimals", s |-> EmptyMap]
    ELSE LET duration == IF IsSome(msg.duration_seconds)
                         THEN Unwrap(msg.duration_seconds)
                         ELSE DEFAULT_SWAP_DURATION
         IN  [err |-> "Ok",
              s |-> [CONFIG |-> [start_time |-> msg.start_time,
                                 end_time |-> msg.start_time + duration,
                                 start_rate |-> msg.start_rate,
                                 end_rate |-> msg.end_rate,
                                 admin |-> msg.admin,
                                 paused |-> FALSE],
                     STATS |-> [total_ustc_received |-> 0,
                                total_ustr_minted |-> 0,
                                total_referral_bonus_minted |-> 0,
                                total_referral_swaps |-> 0,
                                unique_referral_codes_used |-> 0],
                     REFERRAL_CODE_STATS |-> EmptyMap,
                     LEADERBOARD_HEAD |-> None,
                     LEADERBOARD_TAIL |-> None,
                     LEADERBOARD_SIZE |-> 0,
                     LEADERBOARD_LINKS |-> EmptyMap]]

(* ------------------------- inputs of the model ------------------------ *)

\* rates 1.5 -> 2.5 over a window of one second starting at time 1
InstantiateMsgs ==
    {[start_time |-> 1, start_rate |-> (15 * DECIMAL_FRACTIONAL) \div 10,
      end_rate |-> (25 * DECIMAL_FRACTIONAL) \div 10,
      duration_seconds |-> Some(1), admin |-> "admin"]}

Addrs == {"admin", "user"}

Coin(d, a) == [denom |-> d, amount |-> a]
MinFunds == <<Coin(USTC_DENOM, MIN_SWAP_AMOUNT)>>
GoodFunds == {MinFunds, <<Coin(USTC_DENOM, 2 * MIN_SWAP_AMOUNT)>>}
BadFunds == {<<>>, <<Coin(USTC_DENOM, MIN_SWAP_AMOUNT), Coin("uluna", 1)>>,
             <<Coin("uluna", MIN_SWAP_AMOUNT)>>, <<Coin(USTC_DENOM, MIN_SWAP_AMOUNT - 1)>>}

\* normalised referral codes, and "A": code "a" as a sender may type it
Codes == {"a", "b", "c", "d"}
\* codes a hint may name: listed, not yet used, or evicted ones
HintCodes == Codes
Hints == {None, Some([insert_after |-> None])}
            \cup {Some([insert_after |-> Some(c)]) : c \in HintCodes}

ValidateOk == [ok |-> TRUE, is_valid_format |-> TRUE, is_registered |-> TRUE,
               owner |-> Some("referrer")]
ValidateOther ==
    {[ok |-> FALSE, is_valid_format |-> FALSE, is_registered |-> FALSE, owner |-> None],
     [ok |-> TRUE, is_valid_format |-> FALSE, is_registered |-> FALSE, owner |-> None],
     [ok |-> TRUE, is_valid_format |-> TRUE, is_registered |-> FALSE, owner |-> None],
     [ok |-> TRUE, is_valid_format |-> TRUE, is_registered |-> TRUE, owner |-> None]}

\* 5% of the large supply admits every mint of the model, 5% of the small one none
TokenInfoOk == [ok |-> TRUE, total_supply |-> 1000000000]
TokenInfoOther == {[ok |-> FALSE, total_supply |-> 0],
                   [ok |-> TRUE, total_supply |-> 20 * MIN_SWAP_AMOUNT]}

SwapInput(f, c, h, v, t) ==
    [funds |-> f, referral_code |-> c, leaderboard_hint |-> h, validate |-> v,
     token_info |-> t]

\* requests and querier answers tried in every state; an input the handler
\* does not read on a path is held at one value on that path
SwapInputs ==
    {SwapInput(f, None, None, ValidateOk, TokenInfoOk) : f \in BadFunds}
    \cup {SwapInput(MinFunds, c, None, ValidateOk, t) :
            c \in {None, Some("")}, t \in {TokenInfoOk} \cup TokenInfoOther}
    \cup {SwapInput(MinFunds, Some("a"), None, v, TokenInfoOk) : v \in ValidateOther}
    \cup {SwapInput(MinFunds, Some("a"), None, ValidateOk, t) : t \in TokenInfoOther}
    \cup {SwapInput(f, Some("A"), None, ValidateOk, TokenInfoOk) : f \in GoodFunds}
    \cup {SwapInput(f, Some(c), h, ValidateOk, TokenInfoOk) :
            f \in GoodFunds, c \in Codes, h \in Hints}

(* ------------------------------ actions ------------------------------- *)

\* `last` describes the most recent Swap, until another call or a new block
\* follows it: its outcome, the normalised code and the hint that reached
\* update_leaderboard, the change it returned and the code (if any) whose node
\* the call removed for good
NoCall == [op |-> "none", err |-> "Ok", code |-> None, hint |-> None,
           change |-> None, evicted |-> None]

Evicted(s, t) ==
    LET gone == (DOMAIN s.LEADERBOARD_LINKS) \ (DOMAIN t.LEADERBOARD_LINKS)
    IN  IF gone = {} THEN None ELSE Some(CHOOSE c \in gone : TRUE)

\* the USTC a call carries; all USTC ever sent stays within MaxUstcReceived
Sent(funds) ==
    IF Len(funds) >= 1 /\ funds[1].denom = USTC_DENOM THEN funds[1].amount ELSE 0

Init ==
    /\ \E msg \in InstantiateMsgs :
          storage = instantiate(msg, EXPECTED_USTR_DECIMALS).s
    /\ now = 0
    /\ last = NoCall

Swap ==
    \E inp \in SwapInputs :
       /\ storage.STATS.total_ustc_received + Sent(inp.funds) <= MaxUstcReceived
       /\ \E res \in {execute_swap(storage, now, [sender |-> "user", funds |-> inp.funds],
                                   inp.referral_code, inp.leaderboard_hint,
                                   inp.validate, inp.token_info)} :
             /\ storage' = res.s
             /\ last' = [op |-> "swap", err |-> res.err, code |-> res.code,
                         hint |-> IF IsSome(res.code) THEN inp.leaderboard_hint
                                  ELSE None,
                         change |-> res.change,
                         evicted |-> Evicted(storage, res.s)]
             /\ UNCHANGED now

EmergencyPause ==
    \E sender \in Addrs :
    \E res \in {execute_emergency_pause(storage, sender)} :
       /\ storage' = res.s
       /\ last' = NoCall
       /\ UNCHANGED now

EmergencyResume ==
    \E sender \in Addrs :
    \E res \in {execute_emergency_resume(storage, sender)} :
       /\ storage' = res.s
       /\ last' = NoCall
       /\ UNCHANGED now

\* the chain's block time advances between calls
Tick ==
    /\ now < MaxTime
    /\ now' = now + 1
    /\ last' = NoCall
    /\ UNCHANGED storage

Next == Swap \/ EmergencyPause \/ EmergencyResume \/ Tick

Spec == Init /\ [][Next]_vars

(* ---------------- the conversion arithmetic on its own ---------------- *)

\* last block time at which the arithmetic is exercised
MaxClock == 4

\* configurations instantiate is offered: rising, flat and falling rates over
\* windows of 0, 1 and 3 seconds and the default duration
CalcMsgs ==
    {[start_time |-> 1, start_rate |-> (15 * DECIMAL_FRACTIONAL) \div 10,
      end_rate |-> (r * DECIMAL_FRACTIONAL) \div 10,
      duration_seconds |-> d, admin |-> "admin"] :
        r \in {10, 15, 25}, d \in {Some(0), Some(1), Some(3), None}}

CalcAmounts ==
    {MIN_SWAP_AMOUNT - 1, MIN_SWAP_AMOUNT, (3 * MIN_SWAP_AMOUNT) \div 2,
     2 * MIN_SWAP_AMOUNT, 15 * MIN_SWAP_AMOUNT}

\* token supplies whose 5% lies at, just below and far from the mints tried
CalcTokenInfos ==
    {[ok |-> FALSE, total_supply |-> 0]}
    \cup {[ok |-> TRUE, total_supply |-> n] :
            n \in {0, 199999999, 200000000, 239999999, 240000000, 2000000000}}

CalcInputs ==
    {[amount |-> a, referral_code |-> c, validate |-> ValidateOk, token_info |-> t] :
        a \in CalcAmounts, c \in {None, Some(""), Some("a")}, t \in CalcTokenInfos}
    \cup {[amount |-> a, referral_code |-> Some("a"), validate |-> v, token_info |-> t] :
            a \in CalcAmounts, v \in ValidateOther, t \in CalcTokenInfos}

CalcInit ==
    /\ \E msg \in CalcMsgs :
       \E r \in {instantiate(msg, EXPECTED_USTR_DECIMALS)} :
          r.err = "Ok" /\ storage = r.s
    /\ now \in 0..MaxClock
    /\ last = NoCall

\* one Swap on the fresh contract; `last` keeps the request, the querier's
\* answers and everything the call returned
CalcSwap ==
    /\ last.op = "none"
    /\ \E inp \in CalcInputs :
       \E res \in {execute_swap(storage, now,
                                [sender |-> "user",
                                 funds |-> <<Coin(USTC_DENOM, inp.amount)>>],
                                inp.referral_code, None, inp.validate,
                                inp.token_info)} :
          /\ storage' = res.s
          /\ last' = [op |-> "swap", err |-> res.err, amount |-> inp.amount,
                      referral_code |-> inp.referral_code,
                      validate |-> inp.validate, token_info |-> inp.token_info,
                      out |-> res, sim |-> None]
          /\ UNCHANGED now

\* the SwapSimulation query in the same block, with the same amount and code
CalcSimulate ==
    /\ last.op = "swap"
    /\ \E sim \in {query_swap_simulation(storage, now, last.amount,
                                         last.referral_code, last.validate)} :
          last' = [last EXCEPT !.op = "simulated", !.sim = Some(sim)]
    /\ UNCHANGED <<storage, now>>

CalcNext == CalcSwap \/ CalcSimulate

CalcSpec == CalcInit /\ [][CalcNext]_vars

(* ------------- the ledger and the swap window on their own ------------ *)

\* all USTC the ledger runs accept: three minimum swaps
MaxLedgerUstc == 3000000

\* rates 1.5 -> 2.5 over the three seconds from time 1
LedgerMsgs ==
    {[start_time |-> 1, start_rate |-> (15 * DECIMAL_FRACTIONAL) \div 10,
      end_rate |-> (25 * DECIMAL_FRACTIONAL) \div 10,
      duration_seconds |-> Some(3), admin |-> "admin"]}

\* codes as senders type them, with the referral contract's answer; only "a"
\* is also tried with the answers of a failing, malformed or unregistered code
LedgerInputs ==
    {[amount |-> a, referral_code |-> c, validate |-> ValidateOk] :
        a \in {MIN_SWAP_AMOUNT, 2 * MIN_SWAP_AMOUNT},
        c \in {None, Some(""), Some("a"), Some("A"), Some("b")}}
    \cup {[amount |-> MIN_SWAP_AMOUNT, referral_code |-> Some("a"), validate |-> v] :
            v \in ValidateOther}

LedgerNoCall ==
    [op |-> "none", err |-> "Ok", amount |-> 0, referral_code |-> None,
     validate |-> ValidateOk, out |-> SwapFail("Ok", EmptyMap)]

LedgerInit ==
    /\ \E msg \in LedgerMsgs :
          storage = instantiate(msg, EXPECTED_USTR_DECIMALS).s
    /\ now = 0
    /\ last = LedgerNoCall

\* a Swap without hint; `last` keeps the request, the referral contract's
\* answer and everything the call returned
LedgerSwap ==
    \E inp \in LedgerInputs :
       /\ storage.STATS.total_ustc_received + inp.amount <= MaxLedgerUstc
       /\ \E res \in {execute_swap(storage, now,
                                   [sender |-> "user",
                                    funds |-> <<Coin(USTC_DENOM, inp.amount)>>],
                                   inp.referral_code, None, inp.validate,
                                   TokenInfoOk)} :
             /\ storage' = res.s
             /\ last' = [op |-> "swap", err |-> res.err, amount |-> inp.amount,
                         referral_code |-> inp.referral_code,
                         validate |-> inp.validate, out |-> res]
             /\ UNCHANGED now

LedgerPause ==
    \E sender \in Addrs :
    \E res \in {execute_emergency_pause(storage, sender)} :
       /\ storage' = res.s
       /\ last' = [LedgerNoCall EXCEPT !.op = "pause", !.err = res.err]
       /\ UNCHANGED now

LedgerResume ==
    \E sender \in Addrs :
    \E res \in {execute_emergency_resume(storage, sender)} :
       /\ storage' = res.s
       /\ last' = [LedgerNoCall EXCEPT !.op = "resume", !.err = res.err]
       /\ UNCHANGED now

LedgerTick ==
    /\ now < MaxClock
    /\ now' = now + 1
    /\ last' = LedgerNoCall
    /\ UNCHANGED storage

LedgerNext == LedgerSwap \/ LedgerPause \/ LedgerResume \/ LedgerTick

LedgerSpec == LedgerInit /\ [][LedgerNext]_vars

(* ------------------------- the read-only queries ---------------------- *)

\* all USTC the query runs accept: four minimum swaps
MaxQueryUstc == 4000000

\* swaps that build the list: three registered codes, two amounts
QuerySwapInputs ==
    {[amount |-> a, referral_code |-> c] :
        a \in {MIN_SWAP_AMOUNT, 2 * MIN_SWAP_AMOUNT},
        c \in {None, Some("a"), Some("b"), Some("c")}}

\* page sizes a client asks for: none, zero, short pages, the cap and more
QueryLimits == {None} \cup {Some(n) : n \in 0..(MAX_LEADERBOARD_LIMIT + 1)}

\* the referral contract's answers, the failed query among them
QueryValidates == {ValidateOk} \cup ValidateOther

QueryNoCall ==
    [op |-> "none", code |-> None, start_after |-> None, limit |-> None,
     validate |-> ValidateOk, seen |-> <<>>, out |-> [err |-> "Ok"]]

QueryInit ==
    /\ \E msg \in LedgerMsgs :
          storage = instantiate(msg, EXPECTED_USTR_DECIMALS).s
    /\ now = 1
    /\ last = QueryNoCall

QuerySwap ==
    \E inp \in QuerySwapInputs :
       /\ storage.STATS.total_ustc_received + inp.amount <= MaxQueryUstc
       /\ \E res \in {execute_swap(storage, now,
                                   [sender |-> "user",
                                    funds |-> <<Coin(USTC_DENOM, inp.amount)>>],
                                   inp.referral_code, None, ValidateOk,
                                   TokenInfoOk)} :
             /\ storage' = res.s
             /\ last' = [QueryNoCall EXCEPT !.op = "swap",
                                            !.code = inp.referral_code,
                                            !.out = [err |-> res.err]]
             /\ UNCHANGED now

\* one ReferralLeaderboard query: the first page of a paging run, or the next
\* page of the run in `last`, asked with the last returned code as
\* start_after and the same limit; `seen` keeps the entries of the earlier
\* pages of the run
QueryLeaderboard ==
    /\ \E validate \in QueryValidates :
       \/ \E limit \in QueryLimits :
          \E res \in {query_referral_leaderboard(storage, None, limit, validate)} :
             last' = [QueryNoCall EXCEPT !.op = "leaderboard", !.limit = limit,
                                         !.validate = validate, !.out = res]
       \/ /\ last.op = "leaderboard"
          /\ last.out.has_more
          /\ last.out.entries # <<>>
          /\ Len(last.seen) + Len(last.out.entries) <= MAX_LEADERBOARD_SIZE
          /\ \E after \in {Some(last.out.entries[Len(last.out.entries)].code)} :
             \E res \in {query_referral_leaderboard(storage, after, last.limit,
                                                    validate)} :
                last' = [last EXCEPT !.start_after = after,
                                     !.validate = validate,
                                     !.seen = last.seen \o last.out.entries,
                                     !.out = res]
    /\ UNCHANGED <<storage, now>>

QueryCodeStats ==
    /\ \E code \in {"a", "A", "d"}, validate \in QueryValidates :
       \E res \in {query_referral_code_stats(storage, code, validate)} :
          last' = [QueryNoCall EXCEPT !.op = "code_stats", !.code = Some(code),
                                      !.validate = validate, !.out = res]
    /\ UNCHANGED <<storage, now>>

QuerySimulation ==
    /\ \E code \in {None, Some("a")}, validate \in QueryValidates :
       \E res \in {query_swap_simulation(storage, now, MIN_SWAP_AMOUNT, code,
                                         validate)} :
          last' = [QueryNoCall EXCEPT !.op = "simulation", !.code = code,
                                      !.validate = validate, !.out = res]
    /\ UNCHANGED <<storage, now>>

QueryNext == QuerySwap \/ QueryLeaderboard \/ QueryCodeStats \/ QuerySimulation

QuerySpec == QueryInit /\ [][QueryNext]_vars

(* --------------------------- the admin change -------------------------- *)

\* block times around the end of a timelock that started at 0 or at 1
AdminTimes ==
    {0, 1, ADMIN_TIMELOCK_DURATION - 1, ADMIN_TIMELOCK_DURATION,
     ADMIN_TIMELOCK_DURATION + 1, ADMIN_TIMELOCK_DURATION + 2}

\* senders, and the empty string as a new_admin that is no address
AdminAddrs == {"admin", "user", "other"}

AdminNoCall == [op |-> "none", err |-> "Ok", sender |-> ""]

\* the storage of the swap contract with the PENDING_ADMIN item, which
\* instantiate leaves empty
AdminInit ==
    /\ \E msg \in LedgerMsgs :
          storage = [CONFIG |-> instantiate(msg, EXPECTED_USTR_DECIMALS).s.CONFIG,
                     PENDING_ADMIN |-> None]
    /\ now = 0
    /\ last = AdminNoCall

ProposeAdmin ==
    \E sender \in AdminAddrs, new_admin \in AdminAddrs \cup {""} :
    \E res \in {execute_propose_admin(storage, now, sender, new_admin)} :
       /\ storage' = res.s
       /\ last' = [op |-> "propose_admin", err |-> res.err, sender |-> sender]
       /\ UNCHANGED now

AcceptAdmin ==
    \E sender \in AdminAddrs :
    \E res \in {execute_accept_admin(storage, now, sender)} :
       /\ storage' = res.s
       /\ last' = [op |-> "accept_admin", err |-> res.err, sender |-> sender]
       /\ UNCHANGED now

CancelAdminProposal ==
    \E sender \in AdminAddrs :
    \E res \in {execute_cancel_admin_proposal(storage, sender)} :
       /\ storage' = res.s
       /\ last' = [op |-> "cancel_admin_proposal", err |-> res.err,
                   sender |-> sender]
       /\ UNCHANGED now

\* the other two handlers that save CONFIG
AdminPause ==
    \E sender \in AdminAddrs :
    \E res \in {execute_emergency_pause(storage, sender)} :
       /\ storage' = res.s
       /\ last' = [op |-> "pause", err |-> res.err, sender |-> sender]
       /\ UNCHANGED now

AdminResume ==
    \E sender \in AdminAddrs :
    \E res \in {execute_emergency_resume(storage, sender)} :
       /\ storage' = res.s
       /\ last' = [op |-> "resume", err |-> res.err, sender |-> sender]
       /\ UNCHANGED now

\* a later block
AdminTick ==
    /\ \E t \in AdminTimes : t > now /\ now' = t
    /\ last' = AdminNoCall
    /\ UNCHANGED storage

AdminNext ==
    \/ ProposeAdmin \/ AcceptAdmin \/ CancelAdminProposal
    \/ AdminPause \/ AdminResume \/ AdminTick

AdminSpec == AdminInit /\ [][AdminNext]_vars

(* ----------------- the treasury contract (contracts/treasury) ---------- *)

DEFAULT_TIMELOCK_DURATION == 604800

\* the treasury's storage after instantiate
treasury_instantiate(msg) ==
    IF ~addr_validate(msg.governance) THEN [err |-> "Std", s |-> EmptyMap]
    ELSE [err |-> "Ok",
          s |-> [CONFIG |-> [governance |-> msg.governance,
                             timelock_duration |-> DEFAULT_TIMELOCK_DURATION,
                             swap_contract |-> None],
                 PENDING_GOVERNANCE |-> EmptyMap,
                 PENDING_WITHDRAWALS |-> EmptyMap]]

execute_propose_governance_transfer(s, time, sender, new_governance) ==
    LET config == s.CONFIG IN
    IF sender # config.governance THEN [err |-> "Unauthorized", s |-> s]
    ELSE IF ~addr_validate(new_governance) THEN [err |-> "Std", s |-> s]
    ELSE LET pending == [new_address |-> new_governance,
                         execute_after |-> time + config.timelock_duration]
         IN  [err |-> "Ok",
              s |-> [s EXCEPT !.PENDING_GOVERNANCE =
                                  MapSave(@, new_governance, pending)]]

\* variant: accepting clears every pending proposal
execute_accept_governance_transfer_clear_all(s, time, sender) ==
    IF ~IsSome(MapMayLoad(s.PENDING_GOVERNANCE, sender))
    THEN [err |-> "NoPendingGovernanceForAddress", s |-> s]
    ELSE LET pending == MapLoad(s.PENDING_GOVERNANCE, sender) IN
         IF time < pending.execute_after
         THEN [err |-> "TimelockNotExpired", s |-> s]
         ELSE [err |-> "Ok",
               s |-> [s EXCEPT !.CONFIG.governance = pending.new_address,
                               !.PENDING_GOVERNANCE = EmptyMap]]
execute_accept_governance_transfer(s, time, sender) ==
    IF ~IsSome(MapMayLoad(s.PENDING_GOVERNANCE, sender))
    THEN [err |-> "NoPendingGovernanceForAddress", s |-> s]
    ELSE LET pending == MapLoad(s.PENDING_GOVERNANCE, sender) IN
         IF time < pending.execute_after
         THEN [err |-> "TimelockNotExpired", s |-> s]
         ELSE [err |-> "Ok",
               s |-> [s EXCEPT !.CONFIG.governance = pending.new_address,
                               !.PENDING_GOVERNANCE = MapRemove(@, sender)]]

execute_cancel_governance_transfer(s, sender, proposed_governance) ==
    IF sender # s.CONFIG.governance THEN [err |-> "Unauthorized", s |-> s]
    ELSE IF ~addr_validate(proposed_governance) THEN [err |-> "Std", s |-> s]
    ELSE IF proposed_governance \notin DOMAIN s.PENDING_GOVERNANCE
    THEN [err |-> "NoPendingGovernanceForAddress", s |-> s]
    ELSE [err |-> "Ok",
          s |-> [s EXCEPT !.PENDING_GOVERNANCE = MapRemove(@, proposed_governance)]]

\* AssetInfo::Native { denom } and AssetInfo::Cw20 { contract_addr }
Native(denom) == [kind |-> "native", of |-> denom]
Cw20(contract_addr) == [kind |-> "cw20", of |-> contract_addr]

\* the id is the digest of destination, asset, amount and block time: equal
\* inputs give equal ids, and the model lets different inputs give different
\* ids by keeping the hashed data in place of the digest
generate_withdrawal_id(destination, asset, amount, timestamp) ==
    [seed |-> <<destination, asset, amount, timestamp>>, rehash |-> <<>>]

\* the loop that hashes the id again, with the counter, while it is pending
RECURSIVE UniqueIdLoop(_, _, _)
UniqueIdLoop(s, withdrawal_id, counter) ==
    IF withdrawal_id \notin DOMAIN s.PENDING_WITHDRAWALS
    THEN Some(withdrawal_id)
    ELSE IF counter + 1 > 1000 THEN None
    ELSE UniqueIdLoop(s, [withdrawal_id EXCEPT !.rehash = Append(@, counter)],
                      counter + 1)

\* returns [err, s, withdrawal_id]
execute_propose_withdraw(s, time, sender, destination, asset, amount) ==
    LET config == s.CONFIG
        fail(e) == [err |-> e, s |-> s, withdrawal_id |-> None]
    IN  IF sender # config.governance THEN fail("Unauthorized")
        ELSE IF amount = 0 THEN fail("ZeroWithdrawAmount")
        ELSE IF ~addr_validate(destination) THEN fail("Std")
        ELSE LET id == UniqueIdLoop(s, generate_withdrawal_id(destination, asset,
                                                              amount, time), 0)
                 pending == [destination |-> destination, asset |-> asset,
                             amount |-> amount,
                             execute_after |-> time + config.timelock_duration]
             IN  IF ~IsSome(id) THEN fail("Std")
                 ELSE [err |-> "Ok",
                       s |-> [s EXCEPT !.PENDING_WITHDRAWALS =
                                           MapSave(@, Unwrap(id), pending)],
                       withdrawal_id |-> id]

\* `balance` is the bank's answer for the treasury's balance of a native
\* asset; returns [err, s, msgs]
execute_execute_withdraw(s, time, sender, withdrawal_id, balance) ==
    LET fail(e) == [err |-> e, s |-> s, msgs |-> <<>>] IN
    IF sender # s.CONFIG.governance THEN fail("Unauthorized")
    ELSE IF ~IsSome(MapMayLoad(s.PENDING_WITHDRAWALS, withdrawal_id))
    THEN fail("NoPendingWithdrawal")
    ELSE LET pending == MapLoad(s.PENDING_WITHDRAWALS, withdrawal_id) IN
         IF time < pending.execute_after THEN fail("TimelockNotExpired")
         ELSE IF pending.asset.kind = "native" /\ balance < pending.amount
         THEN fail("InsufficientBalance")
         ELSE [err |-> "Ok",
               s |-> [s EXCEPT !.PENDING_WITHDRAWALS = MapRemove(@, withdrawal_id)],
               msgs |-> <<[kind |-> IF pending.asset.kind = "native"
                                    THEN "BankSend" ELSE "Cw20Transfer",
                           asset |-> pending.asset,
                           to |-> pending.destination,
                           amount |-> pending.amount]>>]

execute_cancel_withdraw(s, sender, withdrawal_id) ==
    IF sender # s.CONFIG.governance THEN [err |-> "Unauthorized", s |-> s]
    ELSE IF withdrawal_id \notin DOMAIN s.PENDING_WITHDRAWALS
    THEN [err |-> "NoPendingWithdrawal", s |-> s]
    ELSE [err |-> "Ok",
          s |-> [s EXCEPT !.PENDING_WITHDRAWALS = MapRemove(@, withdrawal_id)]]

\* block times: the first block, and the blocks in which the timelock of a
\* proposal made in the first block runs out and has run out
TreasuryTimes ==
    {0, DEFAULT_TIMELOCK_DURATION, DEFAULT_TIMELOCK_DURATION + 1}

TreasuryAddrs == {"gov", "user", "other"}

\* withdrawals a proposal asks for: both kinds of asset, and the zero amount
WithdrawInputs ==
    {[destination |-> "user", asset |-> a, amount |-> n] :
        a \in {Native(USTC_DENOM), Cw20("token")}, n \in {1000}}
    \cup {[destination |-> "user", asset |-> Native(USTC_DENOM), amount |-> 0]}

\* most proposals of withdrawals pending at once, and most withdrawals
\* executed or cancelled, in the explored runs
MaxPendingWithdrawals == 2
MaxClosedWithdrawals == 1

\* `closed` keeps the ids whose ExecuteWithdraw or CancelWithdraw succeeded
TreasuryNoCall ==
    [op |-> "none", err |-> "Ok", sender |-> "", id |-> None, msgs |-> <<>>,
     closed |-> {}]

TreasuryCall(op, err, sender) ==
    [TreasuryNoCall EXCEPT !.op = op, !.err = err, !.sender = sender,
                           !.closed = last.closed]

TreasuryInit ==
    /\ storage = treasury_instantiate([governance |-> "gov"]).s
    /\ now = 0
    /\ last = TreasuryNoCall

ProposeGovernanceTransfer ==
    \E sender \in TreasuryAddrs, new_governance \in {"user", "other"} :
    \E res \in {execute_propose_governance_transfer(storage, now, sender,
                                                    new_governance)} :
       /\ storage' = res.s
       /\ last' = TreasuryCall("propose_governance_transfer", res.err, sender)
       /\ UNCHANGED now

AcceptGovernanceTransfer ==
    \E sender \in TreasuryAddrs :
    \E res \in {execute_accept_governance_transfer(storage, now, sender)} :
       /\ storage' = res.s
       /\ last' = TreasuryCall("accept_governance_transfer", res.err, sender)
       /\ UNCHANGED now

CancelGovernanceTransfer ==
    \E sender \in TreasuryAddrs, proposed \in {"user", "other"} :
    \E res \in {execute_cancel_governance_transfer(storage, sender, proposed)} :
       /\ storage' = res.s
       /\ last' = TreasuryCall("cancel_governance_transfer", res.err, sender)
       /\ UNCHANGED now

ProposeWithdraw ==
    /\ Cardinality(DOMAIN storage.PENDING_WITHDRAWALS) < MaxPendingWithdrawals
    /\ \E sender \in TreasuryAddrs, w \in WithdrawInputs :
       \E res \in {execute_propose_withdraw(storage, now, sender, w.destination,
                                            w.asset, w.amount)} :
          /\ storage' = res.s
          /\ last' = [TreasuryCall("propose_withdraw", res.err, sender)
                         EXCEPT !.id = res.withdrawal_id]
    /\ UNCHANGED now

\* the ids a sender names: those closed earlier and, while fewer than
\* MaxClosedWithdrawals are closed, the other pending ones
ClosableIds ==
    last.closed \cup {id \in DOMAIN storage.PENDING_WITHDRAWALS :
                         Cardinality(last.closed) < MaxClosedWithdrawals}

ExecuteWithdraw ==
    /\ \E sender \in TreasuryAddrs, balance \in {0, 1000} :
       \E id \in ClosableIds :
       \E res \in {execute_execute_withdraw(storage, now, sender, id, balance)} :
          /\ storage' = res.s
          /\ last' = [TreasuryCall("execute_withdraw", res.err, sender)
                         EXCEPT !.id = Some(id), !.msgs = res.msgs,
                                !.closed = IF res.err = "Ok"
                                           THEN last.closed \cup {id}
                                           ELSE last.closed]
    /\ UNCHANGED now

CancelWithdraw ==
    /\ \E sender \in TreasuryAddrs :
       \E id \in ClosableIds :
       \E res \in {execute_cancel_withdraw(storage, sender, id)} :
          /\ storage' = res.s
          /\ last' = [TreasuryCall("cancel_withdraw", res.err, sender)
                         EXCEPT !.id = Some(id),
                                !.closed = IF res.err = "Ok"
                                           THEN last.closed \cup {id}
                                           ELSE last.closed]
    /\ UNCHANGED now

\* a later block
TreasuryTick ==
    /\ \E t \in TreasuryTimes : t > now /\ now' = t
    /\ last' = TreasuryCall("none", "Ok", "")
    /\ UNCHANGED storage

TreasuryNext ==
    \/ ProposeGovernanceTransfer \/ AcceptGovernanceTransfer
    \/ CancelGovernanceTransfer
    \/ ProposeWithdraw \/ ExecuteWithdraw \/ CancelWithdraw
    \/ TreasuryTick

TreasurySpec == TreasuryInit /\ [][TreasuryNext]_vars

\* the governance transfer alone
GovernanceNext ==
    \/ ProposeGovernanceTransfer \/ AcceptGovernanceTransfer
    \/ CancelGovernanceTransfer \/ TreasuryTick

GovernanceSpec == TreasuryInit /\ [][GovernanceNext]_vars

(* ---------- the admin proposal, with the entry it has replaced --------- *)

\* block times: two early blocks, and the blocks in which the timelock of a
\* proposal made in each of them runs out
NomineeTimes ==
    {0, 1, ADMIN_TIMELOCK_DURATION, ADMIN_TIMELOCK_DURATION + 1}

\* `new_admin` is the address a ProposeAdmin named; `replaced` keeps the
\* pending entry that the latest successful ProposeAdmin overwrote
NomineeNoCall ==
    [op |-> "none", err |-> "Ok", sender |-> "", new_admin |-> "", replaced |-> None]

NomineeInit ==
    /\ \E msg \in LedgerMsgs :
          storage = [CONFIG |-> instantiate(msg, EXPECTED_USTR_DECIMALS).s.CONFIG,
                     PENDING_ADMIN |-> None]
    /\ now = 0
    /\ last = NomineeNoCall

NomineePropose ==
    \E sender \in AdminAddrs, new_admin \in {"user", "other", ""} :
    \E res \in {execute_propose_admin(storage, now, sender, new_admin)} :
       /\ storage' = res.s
       /\ last' = [op |-> "propose_admin", err |-> res.err, sender |-> sender,
                   new_admin |-> new_admin,
                   replaced |-> IF res.err = "Ok" THEN storage.PENDING_ADMIN
                                ELSE last.replaced]
       /\ UNCHANGED now

NomineeAccept ==
    \E sender \in AdminAddrs :
    \E res \in {execute_accept_admin(storage, now, sender)} :
       /\ storage' = res.s
       /\ last' = [NomineeNoCall EXCEPT !.op = "accept_admin", !.err = res.err,
                                        !.sender = sender,
                                        !.replaced = last.replaced]
       /\ UNCHANGED now

NomineeCancel ==
    \E sender \in AdminAddrs :
    \E res \in {execute_cancel_admin_proposal(storage, sender)} :
       /\ storage' = res.s
       /\ last' = [NomineeNoCall EXCEPT !.op = "cancel_admin_proposal",
                                        !.err = res.err, !.sender = sender,
                                        !.replaced = last.replaced]
       /\ UNCHANGED now

\* a later block
NomineeTick ==
    /\ \E t \in NomineeTimes : t > now /\ now' = t
    /\ last' = [NomineeNoCall EXCEPT !.replaced = last.replaced]
    /\ UNCHANGED storage

NomineeNext ==
    \/ NomineePropose \/ NomineeAccept \/ NomineeCancel \/ NomineeTick

NomineeSpec == NomineeInit /\ [][NomineeNext]_vars

(* ------- the governance transfer, with the author of each proposal ------ *)

\* `proposed_by` keeps, for every pending proposal, the sender of the
\* ProposeGovernanceTransfer that saved it
HandoverNoCall == [op |-> "none", err |-> "Ok", sender |-> "", proposed_by |-> EmptyMap]

HandoverInit ==
    /\ storage = treasury_instantiate([governance |-> "gov"]).s
    /\ now = 0
    /\ last = HandoverNoCall

HandoverPropose ==
    \E sender \in TreasuryAddrs, new_governance \in {"user", "other"} :
    \E res \in {execute_propose_governance_transfer(storage, now, sender,
                                                    new_governance)} :
       /\ storage' = res.s
       /\ last' = [op |-> "propose_governance_transfer", err |-> res.err,
                   sender |-> sender,
                   proposed_by |-> IF res.err = "Ok"
                                   THEN MapSave(last.proposed_by, new_governance, sender)
                                   ELSE last.proposed_by]
       /\ UNCHANGED now

HandoverAccept ==
    \E sender \in TreasuryAddrs :
    \E res \in {execute_accept_governance_transfer(storage, now, sender)} :
       /\ storage' = res.s
       /\ last' = [op |-> "accept_governance_transfer", err |-> res.err,
                   sender |-> sender,
                   proposed_by |-> IF res.err = "Ok"
                                   THEN MapRemove(last.proposed_by, sender)
                                   ELSE last.proposed_by]
       /\ UNCHANGED now

HandoverCancel ==
    \E sender \in TreasuryAddrs, proposed \in {"user", "other"} :
    \E res \in {execute_cancel_governance_transfer(storage, sender, proposed)} :
       /\ storage' = res.s
       /\ last' = [op |-> "cancel_governance_transfer", err |-> res.err,
                   sender |-> sender,
                   proposed_by |-> IF res.err = "Ok"
                                   THEN MapRemove(last.proposed_by, proposed)
                                   ELSE last.proposed_by]
       /\ UNCHANGED now

\* a later block
HandoverTick ==
    /\ \E t \in TreasuryTimes : t > now /\ now' = t
    /\ last' = [HandoverNoCall EXCEPT !.proposed_by = last.proposed_by]
    /\ UNCHANGED storage

HandoverNext ==
    \/ HandoverPropose \/ HandoverAccept \/ HandoverCancel \/ HandoverTick

HandoverSpec == HandoverInit /\ [][HandoverNext]_vars

(* ----------------- the referral contract (contracts/referral) ---------- *)

\* referral state.rs:20 sets 10^19; scaled to stay inside the checker's
\* integers, the handler only compares the amount with it.
REGISTRATION_FEE == 10
MIN_CODE_LENGTH == 1
MAX_CODE_LENGTH == 20
\* most codes of one owner; contract.rs:99 reads it, the model keeps it small
\* so that an owner reaches it.
MAX_CODES_PER_OWNER == 2

\* a code of 21 bytes
LongCode == "aaaaaaaaaaaaaaaaaaaaa"

\* whether a lowercased code of the model has a character outside a-z, 0-9,
\* '_' and '-'
HasInvalidCharacter(normalized) == normalized = "a!"

\* returns [err, code]
validate_and_normalize_code(code) ==
    IF code = "" THEN [err |-> "EmptyCode", code |-> ""]
    ELSE IF Len(code) < MIN_CODE_LENGTH \/ Len(code) > MAX_CODE_LENGTH
    THEN [err |-> "InvalidCodeLength", code |-> ""]
    ELSE LET normalized == to_lowercase(code) IN
         IF HasInvalidCharacter(normalized)
         THEN [err |-> "InvalidCodeCharacters", code |-> ""]
         ELSE [err |-> "Ok", code |-> normalized]

\* variant: the registry is asked for the code as typed
execute_receive_as_typed(s, info_sender, cw20_msg) ==
    LET config == s.CONFIG
        fail(e) == [err |-> e, s |-> s, msgs |-> <<>>]
    IN  IF info_sender # config.ustr_token THEN fail("UnauthorizedToken")
        ELSE IF cw20_msg.amount # REGISTRATION_FEE THEN fail("InvalidAmount")
        ELSE IF ~IsSome(cw20_msg.msg) THEN fail("Std")
        ELSE LET validated == validate_and_normalize_code(Unwrap(cw20_msg.msg).code)
                 normalized_code == validated.code
             IN  IF validated.err # "Ok" THEN fail(validated.err)
                 ELSE IF Unwrap(cw20_msg.msg).code \in DOMAIN s.CODES
                 THEN fail("CodeAlreadyRegistered")
                 ELSE IF ~addr_validate(cw20_msg.sender) THEN fail("Std")
                 ELSE LET owner == cw20_msg.sender
                          owner_codes == IF owner \in DOMAIN s.OWNER_CODES
                                         THEN s.OWNER_CODES[owner] ELSE <<>>
                      IN  IF Len(owner_codes) >= MAX_CODES_PER_OWNER
                          THEN fail("MaxCodesPerOwnerReached")
                          ELSE [err |-> "Ok",
                                s |-> [s EXCEPT
                                         !.CODES = MapSave(@, normalized_code, owner),
                                         !.OWNER_CODES =
                                            MapSave(@, owner,
                                                    Append(owner_codes,
                                                           normalized_code))],
                                msgs |-> <<[kind |-> "Cw20Burn",
                                            amount |-> REGISTRATION_FEE]>>]
\* cw20_msg is [sender, amount, msg], msg the parsed RegisterCodeMsg or None
\* when it does not parse; an error return leaves the storage as it was, also
\* after CODES.save; returns [err, s, msgs]
execute_receive(s, info_sender, cw20_msg) ==
    LET config == s.CONFIG
        fail(e) == [err |-> e, s |-> s, msgs |-> <<>>]
    IN  IF info_sender # config.ustr_token THEN fail("UnauthorizedToken")
        ELSE IF cw20_msg.amount # REGISTRATION_FEE THEN fail("InvalidAmount")
        ELSE IF ~IsSome(cw20_msg.msg) THEN fail("Std")
        ELSE LET validated == validate_and_normalize_code(Unwrap(cw20_msg.msg).code)
                 normalized_code == validated.code
             IN  IF validated.err # "Ok" THEN fail(validated.err)
                 ELSE IF normalized_code \in DOMAIN s.CODES
                 THEN fail("CodeAlreadyRegistered")
                 ELSE IF ~addr_validate(cw20_msg.sender) THEN fail("Std")
                 ELSE LET owner == cw20_msg.sender
                          owner_codes == IF owner \in DOMAIN s.OWNER_CODES
                                         THEN s.OWNER_CODES[owner] ELSE <<>>
                      IN  IF Len(owner_codes) >= MAX_CODES_PER_OWNER
                          THEN fail("MaxCodesPerOwnerReached")
                          ELSE [err |-> "Ok",
                                s |-> [s EXCEPT
                                         !.CODES = MapSave(@, normalized_code, owner),
                                         !.OWNER_CODES =
                                            MapSave(@, owner,
                                                    Append(owner_codes,
                                                           normalized_code))],
                                msgs |-> <<[kind |-> "Cw20Burn",
                                            amount |-> REGISTRATION_FEE]>>]

\* the referral contract's storage after instantiate
referral_instantiate(msg) ==
    IF ~addr_validate(msg.ustr_token) THEN [err |-> "Std", s |-> EmptyMap]
    ELSE [err |-> "Ok",
          s |-> [CONFIG |-> [ustr_token |-> msg.ustr_token],
                 CODES |-> EmptyMap,
                 OWNER_CODES |-> EmptyMap]]

\* codes as senders type them: three good ones, "a" also in upper case, and
\* an empty, a malformed and a too long one
RegisterCodes == {"a", "A", "b", "c", "", "a!", LongCode}

\* the Cw20ReceiveMsg of a Send: the right fee with every code, a message
\* that does not parse, a wrong fee
ReceiveMsgs ==
    {[sender |-> o, amount |-> REGISTRATION_FEE, msg |-> Some([code |-> c])] :
        o \in {"alice", "bob"}, c \in RegisterCodes}
    \cup {[sender |-> "alice", amount |-> REGISTRATION_FEE, msg |-> None],
          [sender |-> "alice", amount |-> REGISTRATION_FEE - 1,
           msg |-> Some([code |-> "a"])]}

ReferralInit ==
    /\ storage = referral_instantiate([ustr_token |-> "ustr"]).s
    /\ now = 0
    /\ last = [op |-> "none", err |-> "Ok", info_sender |-> "",
               cw20_msg |-> [sender |-> "", amount |-> 0, msg |-> None],
               msgs |-> <<>>]

Receive ==
    /\ \E info_sender \in {"ustr", "other_token"}, cw20_msg \in ReceiveMsgs :
       \E res \in {execute_receive(storage, info_sender, cw20_msg)} :
          /\ storage' = res.s
          /\ last' = [op |-> "receive", err |-> res.err,
                      info_sender |-> info_sender, cw20_msg |-> cw20_msg,
                      msgs |-> res.msgs]
    /\ UNCHANGED now

ReferralNext == Receive

ReferralSpec == ReferralInit /\ [][ReferralNext]_vars

(* ------------------- entries into the leaderboard --------------------- *)

\* swaps with a registered code and no hint: four codes for three places
EntryInputs ==
    {[amount |-> a, referral_code |-> Some(c)] :
        a \in {MIN_SWAP_AMOUNT, 2 * MIN_SWAP_AMOUNT}, c \in Codes}

\* `new_entries` counts, for every code, the NewEntry changes returned so far
EntryInit ==
    /\ \E msg \in LedgerMsgs :
          storage = instantiate(msg, EXPECTED_USTR_DECIMALS).s
    /\ now = 1
    /\ last = [op |-> "none", err |-> "Ok", code |-> None, change |-> None,
               new_entries |-> [c \in Codes |-> 0]]

EntrySwap ==
    \E inp \in EntryInputs :
       /\ storage.STATS.total_ustc_received + inp.amount <= MaxUstcReceived
       /\ \E res \in {execute_swap(storage, now,
                                   [sender |-> "user",
                                    funds |-> <<Coin(USTC_DENOM, inp.amount)>>],
                                   inp.referral_code, None, ValidateOk,
                                   TokenInfoOk)} :
             /\ storage' = res.s
             /\ last' = [op |-> "swap", err |-> res.err, code |-> res.code,
                         change |-> res.change,
                         new_entries |->
                             IF /\ res.err = "Ok"
                                /\ IsSome(res.change)
                                /\ Unwrap(res.change).action = "NewEntry"
                             THEN [last.new_entries EXCEPT ![Unwrap(res.code)] = @ + 1]
                             ELSE last.new_entries]
             /\ UNCHANGED now

EntryNext == EntrySwap

EntrySpec == EntryInit /\ [][EntryNext]_vars

(* ------------------- vocabulary of the properties --------------------- *)

\* the leaderboard part of the storage: three singleton rows and the link rows
Leaderboard(s) ==
    [head |-> s.LEADERBOARD_HEAD, tail |-> s.LEADERBOARD_TAIL,
     size |-> s.LEADERBOARD_SIZE, links |-> s.LEADERBOARD_LINKS]

Listed(s) == DOMAIN s.LEADERBOARD_LINKS

\* the codes met by following next from `current`, at most `fuel` of them
RECURSIVE WalkFrom(_, _, _)
WalkFrom(s, current, fuel) ==
    IF ~IsSome(current) \/ fuel = 0 THEN <<>>
    ELSE IF Unwrap(current) \notin Listed(s) THEN <<Unwrap(current)>>
    ELSE <<Unwrap(current)>>
           \o WalkFrom(s, s.LEADERBOARD_LINKS[Unwrap(current)].next, fuel - 1)

\* the list from the head; longer than every well-formed list when it cycles
ListOf(s) == WalkFrom(s, s.LEADERBOARD_HEAD, MAX_LEADERBOARD_SIZE + 2)

\* the nodes whose ledger row the downward loop of insert_searching_down
\* loads as `curr`, in order, for a walk that starts at `current`; the walk is
\* cut after `fuel` nodes
RECURSIVE SearchDownVisits(_, _, _, _)


SearchDownVisits(s, rewards, current, fuel) ==
    IF ~IsSome(current) \/ fuel = 0 THEN <<>>
    ELSE LET curr == Unwrap(current)
             curr_link == MapLoad(s.LEADERBOARD_LINKS, curr)
         IN  <<curr>> \o
             (IF /\ Rewards(s, curr) >= rewards
                 /\ IsSome(curr_link.next)
                 /\ Rewards(s, Unwrap(curr_link.next)) >= rewards
              THEN SearchDownVisits(s, rewards, curr_link.next, fuel - 1)
              ELSE <<>>)

\* the same for the upward loop of insert_into_leaderboard_from_position
RECURSIVE SearchUpVisits(_, _, _, _)
SearchUpVisits(s, rewards, current, fuel) ==
    IF ~IsSome(current) \/ fuel = 0 THEN <<>>
    ELSE LET curr == Unwrap(current) IN
         <<curr>> \o
         (IF Rewards(s, curr) >= rewards THEN <<>>
          ELSE SearchUpVisits(s, rewards, MapLoad(s.LEADERBOARD_LINKS, curr).prev,
                              fuel - 1))

\* the node a walk stopped at, if its reward is at least `rewards`
StoppedAt(s, rewards, walk) ==
    IF Rewards(s, walk[Len(walk)]) >= rewards THEN Some(walk[Len(walk)]) ELSE None

\* a successful Swap that carried a registered code reached update_leaderboard
Upserted == last.op = "swap" /\ last.err = "Ok" /\ IsSome(last.code)
UpsertedNext == last'.op = "swap" /\ last'.err = "Ok" /\ IsSome(last'.code)

\* the storage update_leaderboard was called on in the step storage -> storage':
\* the ledger row already saved, the leaderboard not yet touched
MidStorage == [storage EXCEPT !.REFERRAL_CODE_STATS = storage'.REFERRAL_CODE_STATS]

HintNames(h, c) == IsSome(h) /\ Unwrap(h).insert_after = Some(c)

(* ------------------------------ claims -------------------------------- *)

\* C1 as stated: following next from the head, every listed code's reward is
\* strictly greater than its successor's.
C1_StrictlyDescending ==
    LET l == ListOf(storage)
    IN  \A i \in 1..(Len(l) - 1) : Rewards(storage, l[i]) > Rewards(storage, l[i + 1])

\* C1 (amended): after any sequence of upserts with arbitrary hints, following
\* next from the head visits every listed code in descending order of its
\* current total_rewards_earned, equal rewards allowed: no listed code has a
\* smaller reward than its successor.
C1_Descending ==
    LET l == ListOf(storage)
    IN  /\ \A i \in 1..(Len(l) - 1) :
              Rewards(storage, l[i]) >= Rewards(storage, l[i + 1])
        /\ \A c \in Listed(storage) : \E i \in 1..Len(l) : l[i] = c

\* a full list with two neighbours of equal reward, just after an upsert whose
\* hint named a listed code that did not become the predecessor
C1_Witness ==
    /\ Upserted
    /\ last.change # None
    /\ storage.LEADERBOARD_SIZE = MAX_LEADERBOARD_SIZE
    /\ \E h \in Listed(storage) :
          /\ HintNames(last.hint, h)
          /\ storage.LEADERBOARD_LINKS[Unwrap(last.code)].prev # Some(h)
    /\ \E c \in Listed(storage) :
          LET n == storage.LEADERBOARD_LINKS[c].next
          IN  IsSome(n) /\ Rewards(storage, c) = Rewards(storage, Unwrap(n))

\* C2: LEADERBOARD_SIZE equals the number of LEADERBOARD_LINKS rows, equals the
\* number of nodes reached from LEADERBOARD_HEAD by following next, and never
\* exceeds MAX_LEADERBOARD_SIZE.
C2_SizeMatches ==
    /\ storage.LEADERBOARD_SIZE = Cardinality(Listed(storage))
    /\ storage.LEADERBOARD_SIZE = Len(ListOf(storage))
    /\ storage.LEADERBOARD_SIZE <= MAX_LEADERBOARD_SIZE

\* a full leaderboard right after a listed code was moved up past a neighbour
C2_Witness ==
    /\ Upserted
    /\ last.change # None
    /\ Unwrap(last.change).action = "PositionUp"
    /\ storage.LEADERBOARD_SIZE = MAX_LEADERBOARD_SIZE

\* C3: the hint never changes the outcome.  For the state S an upsert of code c
\* with reward total r was applied to, and every hint h it can carry (none,
\* insert_after = None, a code listed above or below the right place, an
\* unlisted code, the tail about to be evicted), update_leaderboard(S, c, r, h)
\* leaves the same head, tail, size and link rows and returns the same change
\* (action and position) as update_leaderboard(S, c, r, None): all hints agree.
C3_HintIndependent ==
    [][UpsertedNext =>
         \A mid \in {MidStorage}, c \in {Unwrap(last'.code)} :
         \A upd \in {update_leaderboard(mid, c, Rewards(storage', c), None)} :
            /\ Leaderboard(upd.s) = Leaderboard(storage')
            /\ upd.change = last'.change]_vars

\* an upsert whose hint named a listed code with a smaller reward, two or more
\* places below where the code was linked
C3_Witness ==
    /\ Upserted
    /\ last.change # None
    /\ \E h \in Listed(storage) \ {Unwrap(last.code)} :
          /\ HintNames(last.hint, h)
          /\ Rewards(storage, h) < Rewards(storage, Unwrap(last.code))
          /\ storage.LEADERBOARD_LINKS[Unwrap(last.code)].next # Some(h)


\* C4: when the leaderboard holds MAX_LEADERBOARD_SIZE entries and a code that
\* has no node is upserted with a reward strictly greater than the current
\* tail's reward, exactly one node is removed, it is the node that was the
\* tail, the new code gets a node, and the size is unchanged.
C4_EvictsTail ==
    [][(/\ UpsertedNext
        /\ storage.LEADERBOARD_SIZE = MAX_LEADERBOARD_SIZE
        /\ Unwrap(last'.code) \notin Listed(storage))
       => /\ IsSome(storage.LEADERBOARD_TAIL)
          /\ LET code == Unwrap(last'.code)
                 tail == Unwrap(storage.LEADERBOARD_TAIL)
             IN  Rewards(storage', code) > Rewards(storage, tail)
                 => /\ Listed(storage) \ Listed(storage') = {tail}
                    /\ Listed(storage') \ Listed(storage) = {code}
                    /\ storage'.LEADERBOARD_SIZE = MAX_LEADERBOARD_SIZE
                    /\ Cardinality(Listed(storage')) = MAX_LEADERBOARD_SIZE]_vars

\* a new entry has just displaced the tail of a full list, and its hint named
\* that tail
C4_Witness ==
    /\ Upserted
    /\ IsSome(last.evicted)
    /\ HintNames(last.hint, Unwrap(last.evicted))
    /\ last.change # None
    /\ Unwrap(last.change).action = "NewEntry"
    /\ Unwrap(last.code) \in Listed(storage)
    /\ storage.LEADERBOARD_SIZE = MAX_LEADERBOARD_SIZE

\* C5: when the leaderboard holds MAX_LEADERBOARD_SIZE entries and a code that
\* has no node is upserted with a reward less than or equal to the current
\* tail's reward, update_leaderboard returns no change (NotQualified) and head,
\* tail, size and every LEADERBOARD_LINKS row are as before the call, for every
\* hint.
C5_NotQualifiedNoMutation ==
    [][(/\ UpsertedNext
        /\ storage.LEADERBOARD_SIZE = MAX_LEADERBOARD_SIZE
        /\ Unwrap(last'.code) \notin Listed(storage)
        /\ IsSome(storage.LEADERBOARD_TAIL)
        /\ Rewards(storage', Unwrap(last'.code))
             <= Rewards(storage, Unwrap(storage.LEADERBOARD_TAIL)))
       => /\ last'.change = None
          /\ Leaderboard(storage') = Leaderboard(storage)]_vars

\* an unlisted code whose reward equals the tail's was upserted into a full
\* list with a hint that names a listed code
C5_Witness ==
    /\ Upserted
    /\ last.change = None
    /\ storage.LEADERBOARD_SIZE = MAX_LEADERBOARD_SIZE
    /\ Unwrap(last.code) \notin Listed(storage)
    /\ IsSome(storage.LEADERBOARD_TAIL)
    /\ Rewards(storage, Unwrap(last.code))
         = Rewards(storage, Unwrap(storage.LEADERBOARD_TAIL))
    /\ \E h \in Listed(storage) : HintNames(last.hint, h)

\* C6: a code has a node exactly when it is in the top MAX_LEADERBOARD_SIZE by
\* total_rewards_earned: in every reachable state, if a code with a stats row
\* has no node then the leaderboard is full and every listed code's reward is
\* greater than or equal to that code's reward.
C6_ListedIffTopK ==
    \A c \in (DOMAIN storage.REFERRAL_CODE_STATS) \ Listed(storage) :
        /\ storage.LEADERBOARD_SIZE = MAX_LEADERBOARD_SIZE
        /\ \A l \in Listed(storage) : Rewards(storage, l) >= Rewards(storage, c)

\* a code has just been upserted with a total that does not qualify for the
\* full list, while a listed code's total is strictly above it
C6_Witness ==
    /\ Upserted
    /\ last.change = None
    /\ Unwrap(last.code) \notin Listed(storage)
    /\ Unwrap(last.code) \in DOMAIN storage.REFERRAL_CODE_STATS
    /\ \E l \in Listed(storage) :
          Rewards(storage, l) > Rewards(storage, Unwrap(last.code))

\* C7: head and tail agree with the list ends.  Head and tail are both absent
\* exactly when the size is 0; when the size is 1 head equals tail; the head
\* node has prev = None, the tail node has next = None, and the tail is the
\* last node reached by following next from the head.
C7_HeadTailConsistent ==
    LET head == storage.LEADERBOARD_HEAD
        tail == storage.LEADERBOARD_TAIL
        l == ListOf(storage)
    IN  /\ (~IsSome(head) /\ ~IsSome(tail)) <=> (storage.LEADERBOARD_SIZE = 0)
        /\ storage.LEADERBOARD_SIZE = 1 => IsSome(head) /\ head = tail
        /\ IsSome(head) => /\ Unwrap(head) \in Listed(storage)
                           /\ storage.LEADERBOARD_LINKS[Unwrap(head)].prev = None
        /\ IsSome(tail) => /\ Unwrap(tail) \in Listed(storage)
                           /\ storage.LEADERBOARD_LINKS[Unwrap(tail)].next = None
                           /\ Len(l) > 0
                           /\ l[Len(l)] = Unwrap(tail)

\* the tail of a full list has just been evicted by a code that became the head
C7_Witness ==
    /\ Upserted
    /\ IsSome(last.evicted)
    /\ storage.LEADERBOARD_HEAD = last.code
    /\ storage.LEADERBOARD_TAIL # last.code
    /\ storage.LEADERBOARD_SIZE = MAX_LEADERBOARD_SIZE


\* C8 as stated: a second update_leaderboard for the code just upserted, with
\* the same reward total and any hint, returns NoChange and leaves head, tail,
\* size and every link row unchanged.
C8_SecondCallNoChange ==
    Upserted =>
        LET code == Unwrap(last.code) IN
        \A h \in Hints :
            LET upd == update_leaderboard(storage, code, Rewards(storage, code), h)
            IN  /\ upd.change # None
                /\ Unwrap(upd.change).action = "NoChange"
                /\ Leaderboard(upd.s) = Leaderboard(storage)

\* C8 (amended): a second update_leaderboard for the same code with the same
\* reward total, with any hints, leaves head, tail, size and every link row
\* unchanged; it returns NoChange when the code has a node after the first call,
\* and no change (NotQualified) again when the first call left it unlisted.
C8_SecondCallIdempotent ==
    Upserted =>
        LET code == Unwrap(last.code) IN
        \A h \in Hints :
            LET upd == update_leaderboard(storage, code, Rewards(storage, code), h)
            IN  /\ Leaderboard(upd.s) = Leaderboard(storage)
                /\ upd.s = storage
                /\ IF code \in Listed(storage)
                   THEN /\ upd.change # None
                        /\ Unwrap(upd.change).action = "NoChange"
                   ELSE upd.change = None

\* the first call has just moved a listed code up to a place right below a code
\* of equal reward
C8_Witness ==
    /\ Upserted
    /\ last.change # None
    /\ Unwrap(last.change).action = "PositionUp"
    /\ LET p == storage.LEADERBOARD_LINKS[Unwrap(last.code)].prev
       IN  IsSome(p) /\ Rewards(storage, Unwrap(p)) = Rewards(storage, Unwrap(last.code))

\* C9 as stated: if listed code B has reward b and code A is upserted with a
\* total a > b, then afterwards A is in the leaderboard and its position is
\* strictly smaller than B's position.
C9_RanksAbove ==
    [][UpsertedNext =>
         LET A == Unwrap(last'.code)
             posA == get_leaderboard_position(storage', A)
         IN  \A B \in Listed(storage) \ {A} :
                Rewards(storage, B) < Rewards(storage', A)
                => LET posB == get_leaderboard_position(storage', B)
                   IN  /\ IsSome(posA)
                       /\ IsSome(posB)
                       /\ Unwrap(posA) < Unwrap(posB)]_vars

\* C9 (amended): if listed code B has reward b and code A is upserted with a
\* total a > b, then afterwards A is in the leaderboard, for every hint and
\* whether A was listed before or not; if B still has a node, A's position is
\* strictly smaller than B's; B has no node afterwards only when A was unlisted,
\* the list was full and B was the tail this upsert evicted.
C9_RanksAboveListed ==
    [][UpsertedNext =>
         LET A == Unwrap(last'.code)
             posA == get_leaderboard_position(storage', A)
         IN  \A B \in Listed(storage) \ {A} :
                Rewards(storage, B) < Rewards(storage', A)
                => /\ IsSome(posA)
                   /\ A \in Listed(storage')
                   /\ IF B \in Listed(storage')
                      THEN LET posB == get_leaderboard_position(storage', B)
                           IN  IsSome(posB) /\ Unwrap(posA) < Unwrap(posB)
                      ELSE /\ A \notin Listed(storage)
                           /\ storage.LEADERBOARD_SIZE = MAX_LEADERBOARD_SIZE
                           /\ storage.LEADERBOARD_TAIL = Some(B)]_vars

\* a listed code has just been moved up past a code of strictly smaller reward
\* that is now its successor, with a hint that named that code
C9_Witness ==
    /\ Upserted
    /\ last.change # None
    /\ Unwrap(last.change).action = "PositionUp"
    /\ LET n == storage.LEADERBOARD_LINKS[Unwrap(last.code)].next
       IN  /\ IsSome(n)
           /\ Rewards(storage, Unwrap(n)) < Rewards(storage, Unwrap(last.code))
           /\ HintNames(last.hint, Unwrap(n))

\* C10: a Swap that returns an error leaves STATS, every REFERRAL_CODE_STATS
\* row and the whole leaderboard (head, tail, size, links) unchanged.
C10_ErrorLeavesLedger ==
    [][(last'.op = "swap" /\ last'.err # "Ok")
       => /\ storage'.STATS = storage.STATS
          /\ storage'.REFERRAL_CODE_STATS = storage.REFERRAL_CODE_STATS
          /\ Leaderboard(storage') = Leaderboard(storage)]_vars

\* a Swap has just failed the mint safety cap, after earlier swaps had filled
\* the ledger and the leaderboard
C10_Witness ==
    /\ last.op = "swap"
    /\ last.err = "MintExceedsSafetyLimit"
    /\ storage.STATS.total_referral_swaps > 0
    /\ storage.LEADERBOARD_SIZE > 0


(* ------------------ claims about the swap arithmetic ------------------ *)

\* 5% of the supply the token reported to the last Swap,
\* floor(total_supply * 5 / 100)
max_safe_mint ==
    last.token_info.total_supply
        \div (MINT_SAFETY_LIMIT_DENOMINATOR \div MINT_SAFETY_LIMIT_NUMERATOR)

\* C11: a successful Swap mints base + user bonus + referrer bonus, and that
\* total is at most floor(total_supply * 5 / 100) of the token's supply; a
\* Swap refused with MintExceedsSafetyLimit had a total strictly above the
\* cap, so a total equal to the cap is never refused.
C11_MintWithinSafetyCap ==
    (last.op # "none" /\ last.token_info.ok) =>
        /\ last.out.err = "Ok" =>
              /\ last.out.total_ustr_minted
                   = last.out.base_ustr + last.out.user_bonus + last.out.referrer_bonus
              /\ last.out.total_ustr_minted <= max_safe_mint
              /\ storage.STATS.total_ustr_minted = last.out.total_ustr_minted
        /\ last.out.err = "MintExceedsSafetyLimit" =>
              last.out.total_ustr_minted > max_safe_mint
        /\ last.out.err \in {"Ok", "MintExceedsSafetyLimit"}
              \/ last.out.total_ustr_minted = 0

\* a Swap with a referral code has just succeeded with a total exactly equal
\* to the cap
C11_Witness ==
    /\ last.op = "swap"
    /\ last.token_info.ok
    /\ last.out.err = "Ok"
    /\ last.out.referrer_bonus > 0
    /\ last.out.total_ustr_minted = max_safe_mint


\* C12: the base output of a successful Swap is floor(ustc_amount / rate)
\* scaled by the decimal adjustment: it is a multiple of the adjustment, and
\* the quotient q satisfies q * rate <= ustc_amount < (q + 1) * rate.
C12_BaseIsFlooredThenScaled ==
    (last.op # "none" /\ last.out.err = "Ok") =>
        /\ last.out.base_ustr % DECIMAL_ADJUSTMENT = 0
        /\ \A q \in {last.out.base_ustr \div DECIMAL_ADJUSTMENT} :
              /\ q * last.out.rate <= last.amount * DECIMAL_FRACTIONAL
              /\ last.amount * DECIMAL_FRACTIONAL < (q + 1) * last.out.rate

\* 15,000,000 uusd have just been swapped at rate 1.5 and gave 10,000,000
\* whole quotient units times the adjustment
C12_Witness ==
    /\ last.op = "swap"
    /\ last.out.err = "Ok"
    /\ last.amount = 15 * MIN_SWAP_AMOUNT
    /\ 10 * last.out.rate = 15 * DECIMAL_FRACTIONAL
    /\ last.out.base_ustr = 10 * MIN_SWAP_AMOUNT * DECIMAL_ADJUSTMENT


\* C13: on a successful Swap with a code that the referral contract reports
\* as valid and registered to an owner, bonus = floor(base * 10 / 100), the
\* user is minted base + bonus, the owner is minted bonus, and the total is
\* base + 2 * bonus; with no code or an empty code both bonuses are 0 and the
\* only mint is base to the user.
C13_ReferralBonus ==
    (last.op # "none" /\ last.out.err = "Ok") =>
        \A base \in {last.out.base_ustr}, bonus \in {last.out.user_bonus} :
        IF IsSome(last.referral_code) /\ Unwrap(last.referral_code) # ""
        THEN IsSome(last.validate.owner) =>
              /\ bonus * REFERRAL_BONUS_DENOMINATOR <= base * REFERRAL_BONUS_NUMERATOR
              /\ base * REFERRAL_BONUS_NUMERATOR < (bonus + 1) * REFERRAL_BONUS_DENOMINATOR
              /\ last.out.referrer_bonus = bonus
              /\ last.out.total_ustr_to_user = base + bonus
              /\ last.out.total_ustr_minted = base + 2 * bonus
              /\ last.out.messages
                   = <<[recipient |-> "user", amount |-> base + bonus],
                       [recipient |-> Unwrap(last.validate.owner), amount |-> bonus]>>
        ELSE  /\ bonus = 0
              /\ last.out.referrer_bonus = 0
              /\ last.out.total_ustr_minted = base
              /\ last.out.messages = <<[recipient |-> "user", amount |-> base]>>

\* 1,500,000 uusd have just been swapped at rate 1.5 with a registered code:
\* 11 parts to the user and 1 part to the code's owner
C13_Witness ==
    /\ last.op = "swap"
    /\ last.out.err = "Ok"
    /\ last.referral_code = Some("a")
    /\ 2 * last.amount = 3 * MIN_SWAP_AMOUNT
    /\ last.out.messages
         = <<[recipient |-> "user",
              amount |-> 11 * (MIN_SWAP_AMOUNT \div 10) * DECIMAL_ADJUSTMENT],
             [recipient |-> "referrer",
              amount |-> (MIN_SWAP_AMOUNT \div 10) * DECIMAL_ADJUSTMENT]>>


\* C14: after a successful Swap, SwapSimulation asked in the same block with
\* the same amount, code and oracle answer returns the rate, base amount,
\* user bonus, referrer bonus and total to the user that the Swap applied.
C14_SimulationMatchesSwap ==
    (last.op = "simulated" /\ last.out.err = "Ok") =>
        \A sim \in {Unwrap(last.sim)} :
            /\ sim.err = "Ok"
            /\ sim.ustc_amount = last.amount
            /\ sim.rate = last.out.rate
            /\ sim.base_ustr_amount = last.out.base_ustr
            /\ sim.user_bonus = last.out.user_bonus
            /\ sim.referrer_bonus = last.out.referrer_bonus
            /\ sim.total_ustr_to_user = last.out.total_ustr_to_user
            /\ sim.total_ustr_to_user = last.out.messages[1].amount

\* a Swap with a registered code inside a rising window, at a rate above the
\* start rate and with a base that 10 does not divide, has just been simulated
C14_Witness ==
    /\ last.op = "simulated"
    /\ last.out.err = "Ok"
    /\ last.out.rate > storage.CONFIG.start_rate
    /\ last.out.user_bonus > 0
    /\ Unwrap(last.sim).referral_valid
    /\ (last.out.base_ustr \div DECIMAL_ADJUSTMENT) % 10 # 0


(* -------------------- claims about the rate window -------------------- *)

\* C17: no instantiated contract has a rate window of duration 0, that is,
\* end_time > start_time in every CONFIG that instantiate has stored.
C17_DurationPositive ==
    storage.CONFIG.end_time - storage.CONFIG.start_time > 0


\* the block times at which the rate is probed: around the start of the
\* window, and at and after its end
RateTimes == (0..MaxClock) \cup {storage.CONFIG.end_time, storage.CONFIG.end_time + 1}

\* C15: on the stored configuration calculate_current_rate returns a rate at
\* every probed time, exactly start_rate for every t <= start_time and
\* exactly end_rate for every t >= end_time.
C15_ExactEndpoints ==
    \A t \in RateTimes :
        /\ ~calculate_current_rate_panics(storage.CONFIG)
        /\ t <= storage.CONFIG.start_time
              => calculate_current_rate(storage.CONFIG, t) = storage.CONFIG.start_rate
        /\ t >= storage.CONFIG.end_time
              => calculate_current_rate(storage.CONFIG, t) = storage.CONFIG.end_rate


\* C16: when end_rate > start_rate, the rates calculate_current_rate computes
\* on the stored configuration are non-decreasing in time: for all probed
\* t1 <= t2, rate(t1) <= rate(t2).
C16_RateMonotone ==
    (/\ storage.CONFIG.end_rate > storage.CONFIG.start_rate
     /\ ~calculate_current_rate_panics(storage.CONFIG)) =>
        \A t1 \in RateTimes, t2 \in RateTimes :
            t1 <= t2 => calculate_current_rate(storage.CONFIG, t1)
                          <= calculate_current_rate(storage.CONFIG, t2)

\* a Swap has just been priced strictly between the two rates of a rising
\* window, at a time whose progress fraction is rounded down
C16_Witness ==
    /\ last.op = "swap"
    /\ last.out.err = "Ok"
    /\ last.out.rate = calculate_current_rate(storage.CONFIG, now)
    /\ last.out.rate > storage.CONFIG.start_rate
    /\ last.out.rate < storage.CONFIG.end_rate
    /\ ((now - storage.CONFIG.start_time) * DECIMAL_FRACTIONAL)
          % (storage.CONFIG.end_time - storage.CONFIG.start_time) # 0


(* ------------- claims about the change and the list's rows ------------- *)

C19_NoDanglingReference ==
    \A ref \in {storage.LEADERBOARD_HEAD, storage.LEADERBOARD_TAIL}
               \cup {storage.LEADERBOARD_LINKS[c].prev : c \in Listed(storage)}
               \cup {storage.LEADERBOARD_LINKS[c].next : c \in Listed(storage)} :
        IsSome(ref) => /\ Unwrap(ref) \in DOMAIN storage.LEADERBOARD_LINKS
                       /\ Unwrap(ref) \in DOMAIN storage.REFERRAL_CODE_STATS

\* the tail of a full list has just been evicted: its link row is gone, its
\* ledger row remains, and the list is full again
C19_Witness ==
    /\ Upserted
    /\ IsSome(last.evicted)
    /\ Unwrap(last.evicted) \notin DOMAIN storage.LEADERBOARD_LINKS
    /\ Unwrap(last.evicted) \in DOMAIN storage.REFERRAL_CODE_STATS
    /\ storage.LEADERBOARD_SIZE = MAX_LEADERBOARD_SIZE
    /\ IsSome(storage.LEADERBOARD_TAIL)


\* C20: whenever update_leaderboard links a code, the list it searched (the
\* list after the call without that code) has at most K nodes, and from every
\* node a hint can start it at, the downward walk and the upward walk end
\* within that many nodes, visit no node twice, and end at the node the
\* search loop returns.
C20_WalkVisitsEachNodeOnce ==
    [][(UpsertedNext /\ last'.change # None
          /\ Unwrap(last'.change).action # "NoChange") =>
         \A c \in {Unwrap(last'.code)} :
         \A r \in {Rewards(storage', c)},
            s \in {remove_from_leaderboard_internal(
                       storage', c, storage'.LEADERBOARD_LINKS[c])} :
            /\ Cardinality(Listed(s)) <= MAX_LEADERBOARD_SIZE
            /\ \A start \in Listed(s) :
               \A down \in {SearchDownVisits(s, r, Some(start), MAX_LEADERBOARD_SIZE + 1)},
                  up \in {SearchUpVisits(s, r, Some(start), MAX_LEADERBOARD_SIZE + 1)} :
                  /\ Len(down) <= Cardinality(Listed(s))
                  /\ Len(up) <= Cardinality(Listed(s))
                  /\ \A i, j \in 1..Len(down) : i # j => down[i] # down[j]
                  /\ \A i, j \in 1..Len(up) : i # j => up[i] # up[j]
                  /\ SearchDownLoop(s, r, Some(start), None) = StoppedAt(s, r, down)
                  /\ SearchUpLoop(s, r, Some(start)) = StoppedAt(s, r, up)]_vars

\* a code has just been linked at the head of a full list although the hint
\* named the node that is now the tail: the upward walk passed every node
C20_Witness ==
    /\ Upserted
    /\ last.change # None
    /\ Unwrap(last.change).action # "NoChange"
    /\ storage.LEADERBOARD_SIZE = MAX_LEADERBOARD_SIZE
    /\ storage.LEADERBOARD_HEAD = last.code
    /\ IsSome(storage.LEADERBOARD_TAIL)
    /\ HintNames(last.hint, Unwrap(storage.LEADERBOARD_TAIL))


(* ------------------- claims about the per-code ledger ------------------ *)

\* C21: a successful Swap with a code registered to an owner adds the referrer
\* bonus to total_rewards_earned, the user bonus to total_user_bonuses and 1
\* to total_swaps of the row keyed by the lowercased code, starting from zeros
\* when the row is new, and leaves every other row as it was; no step of any
\* kind removes a row.
C21_LedgerRowUpdate ==
    [][\A rows \in {storage.REFERRAL_CODE_STATS}, rows2 \in {storage'.REFERRAL_CODE_STATS} :
         /\ DOMAIN rows \subseteq DOMAIN rows2
         /\ (last'.op = "swap" /\ last'.err = "Ok") =>
              IF /\ IsSome(last'.referral_code)
                 /\ Unwrap(last'.referral_code) # ""
                 /\ IsSome(last'.validate.owner)
              THEN \A c \in {to_lowercase(Unwrap(last'.referral_code))} :
                   \A old \in {IF c \in DOMAIN rows THEN rows[c]
                               ELSE [total_rewards_earned |-> 0,
                                     total_user_bonuses |-> 0,
                                     total_swaps |-> 0]} :
                      /\ c \in {"a", "b"}
                      /\ DOMAIN rows2 = DOMAIN rows \cup {c}
                      /\ rows2[c] = [total_rewards_earned |->
                                         old.total_rewards_earned
                                           + last'.out.referrer_bonus,
                                     total_user_bonuses |->
                                         old.total_user_bonuses + last'.out.user_bonus,
                                     total_swaps |-> old.total_swaps + 1]
                      /\ \A k \in DOMAIN rows \ {c} : rows2[k] = rows[k]
              ELSE rows2 = rows]_vars

\* code "a" has just been used a second time, typed as "A", while code "b"
\* has a row of its own
C21_Witness ==
    /\ last.op = "swap"
    /\ last.err = "Ok"
    /\ last.referral_code = Some("A")
    /\ last.out.referrer_bonus > 0
    /\ DOMAIN storage.REFERRAL_CODE_STATS = {"a", "b"}
    /\ storage.REFERRAL_CODE_STATS["a"].total_swaps = 2


\* C22: a Swap on a paused contract fails with SwapPaused; on a contract that
\* is not paused it fails with SwapNotStarted before start_time and with
\* SwapEnded at or after end_time, exactly end_time included; so a Swap
\* succeeds only when the contract is not paused and start_time <= block time
\* < end_time, and these three errors occur in no other case. A paused
\* contract stays paused until an EmergencyResume succeeds.
C22_SwapOnlyInOpenWindow ==
    [][/\ last'.op = "swap" =>
            \A cfg \in {storage'.CONFIG}, e \in {last'.err} :
               /\ (e = "SwapPaused") <=> cfg.paused
               /\ (e = "SwapNotStarted") <=> (~cfg.paused /\ now' < cfg.start_time)
               /\ (e = "SwapEnded") <=> (~cfg.paused /\ now' >= cfg.end_time)
               /\ (e = "Ok") => /\ ~cfg.paused
                                /\ cfg.start_time <= now'
                                /\ now' < cfg.end_time
       /\ (storage.CONFIG.paused /\ ~storage'.CONFIG.paused)
             => (last'.op = "resume" /\ last'.err = "Ok")]_vars

\* after earlier swaps were served, a Swap in the block whose time is exactly
\* end_time has just been refused with SwapEnded
C22_Witness ==
    /\ last.op = "swap"
    /\ last.err = "SwapEnded"
    /\ now = storage.CONFIG.end_time
    /\ ~storage.CONFIG.paused
    /\ storage.STATS.total_ustc_received > 0


\* C23: paging the ReferralLeaderboard query with the last returned code as
\* start_after, on an unchanged leaderboard: the pages returned so far are,
\* put together, a prefix of the list in list order, each code once, with
\* ranks 1, 2, ...; a page has at most min(limit, cap) entries (the default
\* limit when none is given) and, for a limit of at least one, is that long
\* unless the list ends; has_more is true exactly when listed codes remain
\* after the page's last entry.
C23_PagingReturnsListOnce ==
    last.op = "leaderboard" =>
        \A L \in {ListOf(storage)}, all \in {last.seen \o last.out.entries} :
        \A lim \in {Min(IF IsSome(last.limit) THEN Unwrap(last.limit)
                        ELSE DEFAULT_LEADERBOARD_LIMIT, MAX_LEADERBOARD_LIMIT)} :
           /\ last.out.err = "Ok"
           /\ Len(last.out.entries) <= lim
           /\ Len(last.out.entries) = Min(lim, Len(L) - Len(last.seen))
           /\ Len(all) <= Len(L)
           /\ \A i \in 1..Len(all) : all[i].code = L[i] /\ all[i].rank = i
           /\ last.out.has_more <=> (Len(all) < Len(L))

\* the third one-entry page of a full list has just been returned: it holds
\* the tail at rank 3 and reports that nothing is left
C23_Witness ==
    /\ last.op = "leaderboard"
    /\ last.limit = Some(1)
    /\ Len(last.seen) = 2
    /\ Len(last.out.entries) = 1
    /\ last.out.entries[1].rank = 3
    /\ Some(last.out.entries[1].code) = storage.LEADERBOARD_TAIL
    /\ ~last.out.has_more


\* the answer ValidateCode gives for a code that is neither well formed nor
\* registered
ValidateInvalid ==
    [ok |-> TRUE, is_valid_format |-> FALSE, is_registered |-> FALSE, owner |-> None]

\* C24 as stated: in SwapSimulation, ReferralCodeStats and ReferralLeaderboard
\* a failed ValidateCode query still lets the query return a result.
C24_FailedOracleNeverFails ==
    (last.op \in {"simulation", "code_stats", "leaderboard"} /\ ~last.validate.ok)
        => last.out.err = "Ok"

\* C24, amended: SwapSimulation and ReferralLeaderboard answer a failed
\* ValidateCode query as they answer an invalid code (no bonus, owner
\* "unknown") and still return a result; ReferralCodeStats fails when the
\* query fails, as it does for a code that is not registered.
C24_FailedOracleAsInvalid ==
    ~last.validate.ok =>
        /\ last.op = "simulation" =>
              /\ last.out.err = "Ok"
              /\ last.out = query_swap_simulation(storage, now, last.out.ustc_amount,
                                                  last.code, ValidateInvalid)
              /\ ~last.out.referral_valid
              /\ last.out.user_bonus = 0
        /\ last.op = "leaderboard" =>
              /\ last.out.err = "Ok"
              /\ last.out = query_referral_leaderboard(storage, last.start_after,
                                                       last.limit, ValidateInvalid)
              /\ \A i \in 1..Len(last.out.entries) :
                    last.out.entries[i].owner = "unknown"
        /\ last.op = "code_stats" =>
              /\ last.out.err # "Ok"
              /\ query_referral_code_stats(storage, Unwrap(last.code),
                                           ValidateInvalid).err # "Ok"

\* a page of two entries has just been returned although every ValidateCode
\* query of the call failed
C24_Witness ==
    /\ last.op = "leaderboard"
    /\ ~last.validate.ok
    /\ Len(last.out.entries) = 2
    /\ last.out.entries[2].owner = "unknown"


\* C25: in the swap contract config.admin changes only through a successful
\* AcceptAdmin sent by the pending address at a block time of at least
\* execute_after, and execute_after is the block time of the ProposeAdmin
\* that wrote the pending entry plus 604,800 seconds: the entry is written
\* only by a successful ProposeAdmin of the admin and removed only by a
\* successful AcceptAdmin or CancelAdminProposal. An AcceptAdmin of the
\* pending address before execute_after fails with TimelockNotExpired and
\* leaves the admin and the pending entry as they were.
C25_AdminChangesOnlyAfterTimelock ==
    [][\A old \in {storage.PENDING_ADMIN}, new \in {storage'.PENDING_ADMIN} :
       /\ storage'.CONFIG.admin # storage.CONFIG.admin =>
             /\ last'.op = "accept_admin" /\ last'.err = "Ok"
             /\ IsSome(old)
             /\ last'.sender = Unwrap(old).new_address
             /\ storage'.CONFIG.admin = Unwrap(old).new_address
             /\ now >= Unwrap(old).execute_after
       /\ new # old =>
             \/ /\ last'.op = "propose_admin" /\ last'.err = "Ok"
                /\ last'.sender = storage.CONFIG.admin
                /\ IsSome(new)
                /\ Unwrap(new).execute_after = now + 604800
             \/ /\ last'.op \in {"accept_admin", "cancel_admin_proposal"}
                /\ last'.err = "Ok"
                /\ new = None
       /\ (/\ last'.op = "accept_admin"
           /\ IsSome(old)
           /\ last'.sender = Unwrap(old).new_address
           /\ now < Unwrap(old).execute_after)
             => /\ last'.err = "TimelockNotExpired"
                /\ storage' = storage]_vars

\* the pending address "user" has just become admin by its AcceptAdmin, in a
\* block one second after the shortest timelock has run out
C25_Witness ==
    /\ last.op = "accept_admin"
    /\ last.err = "Ok"
    /\ last.sender = "user"
    /\ storage.CONFIG.admin = "user"
    /\ storage.PENDING_ADMIN = None
    /\ now = 1 + ADMIN_TIMELOCK_DURATION


\* C26: in the treasury an AcceptGovernanceTransfer of a proposed address,
\* and an ExecuteWithdraw of a pending withdrawal by the governance, sent at
\* a block time exactly equal to the proposal's execute_after (its block
\* time plus timelock_duration), is rejected with TimelockNotExpired.
C26_RejectedExactlyAtTimelock ==
    [][/\ (/\ last'.op = "accept_governance_transfer"
           /\ last'.sender \in DOMAIN storage.PENDING_GOVERNANCE
           /\ now = storage.PENDING_GOVERNANCE[last'.sender].execute_after)
             => (last'.err = "TimelockNotExpired" /\ storage' = storage)
       /\ (/\ last'.op = "execute_withdraw"
           /\ last'.sender = storage.CONFIG.governance
           /\ Unwrap(last'.id) \in DOMAIN storage.PENDING_WITHDRAWALS
           /\ now = storage.PENDING_WITHDRAWALS[Unwrap(last'.id)].execute_after)
             => (last'.err = "TimelockNotExpired" /\ storage' = storage)]_vars


\* C27: after a successful ExecuteWithdraw or CancelWithdraw for an id, every
\* later ExecuteWithdraw of the governance for that id fails with
\* NoPendingWithdrawal and emits no message.
C27_ClosedWithdrawalNeverExecutes ==
    [][(/\ last'.op = "execute_withdraw"
        /\ last'.sender = storage.CONFIG.governance
        /\ Unwrap(last'.id) \in last.closed)
          => (last'.err = "NoPendingWithdrawal" /\ last'.msgs = <<>>)]_vars


\* C28: a successful AcceptGovernanceTransfer removes the proposal of the
\* sender and no other: every other pending governance proposal stays stored
\* with its execute_after; an AcceptGovernanceTransfer that fails removes none.
C28_AcceptRemovesOnlyAccepted ==
    [][last'.op = "accept_governance_transfer" =>
         \A old \in {storage.PENDING_GOVERNANCE}, new \in {storage'.PENDING_GOVERNANCE} :
            IF last'.err = "Ok"
            THEN /\ last'.sender \in DOMAIN old
                 /\ DOMAIN new = DOMAIN old \ {last'.sender}
                 /\ \A k \in DOMAIN new : new[k] = old[k]
                 /\ storage'.CONFIG.governance = last'.sender
            ELSE new = old]_vars

\* "user" has just accepted the governance while the proposal for "other",
\* made in a later block, is still stored
C28_Witness ==
    /\ last.op = "accept_governance_transfer"
    /\ last.err = "Ok"
    /\ last.sender = "user"
    /\ storage.CONFIG.governance = "user"
    /\ DOMAIN storage.PENDING_GOVERNANCE = {"other"}
    /\ storage.PENDING_GOVERNANCE["other"].execute_after
          = 2 * DEFAULT_TIMELOCK_DURATION


\* C29: in the referral registry no step changes or removes the owner of a
\* registered code; a registration that comes from the USTR token with the
\* exact fee and a parsable message, for a code whose lowercased form is
\* already registered, fails with CodeAlreadyRegistered whoever the sender
\* is, and leaves the code-to-owner and the owner-to-codes map as they were.
C29_OwnerNeverChanges ==
    [][\A codes \in {storage.CODES}, codes2 \in {storage'.CODES} :
         /\ \A c \in DOMAIN codes : c \in DOMAIN codes2 /\ codes2[c] = codes[c]
         /\ (/\ last'.op = "receive"
             /\ last'.info_sender = storage.CONFIG.ustr_token
             /\ last'.cw20_msg.amount = REGISTRATION_FEE
             /\ IsSome(last'.cw20_msg.msg)
             /\ to_lowercase(Unwrap(last'.cw20_msg.msg).code) \in DOMAIN codes)
               => /\ last'.err = "CodeAlreadyRegistered"
                  /\ codes2 = codes
                  /\ storage'.OWNER_CODES = storage.OWNER_CODES
                  /\ last'.msgs = <<>>]_vars

\* bob has just tried to register "A" while "a" belongs to alice
C29_Witness ==
    /\ last.op = "receive"
    /\ last.err = "CodeAlreadyRegistered"
    /\ last.cw20_msg.sender = "bob"
    /\ last.cw20_msg.msg = Some([code |-> "A"])
    /\ "a" \in DOMAIN storage.CODES
    /\ storage.CODES["a"] = "alice"
    /\ "bob" \notin DOMAIN storage.OWNER_CODES


\* C30: over any sequence of swaps no code receives the NewEntry action more
\* than once, a code that was evicted from the full leaderboard and enters it
\* again included.
C30_NewEntryAtMostOnce ==
    \A c \in Codes : last.new_entries[c] <= 1


\* the sum of the amounts of a sequence of mint messages
RECURSIVE MintedByMessages(_)
MintedByMessages(messages) ==
    IF messages = <<>> THEN 0
    ELSE messages[1].amount + MintedByMessages(Tail(messages))

\* C31: for every successful Swap, whatever the referral contract answered,
\* the amounts of the mint messages (to the user and, if any, to the
\* referrer) sum to the amount that was compared with the safety cap and
\* added to STATS.total_ustr_minted.
C31_MintedEqualsCounted ==
    [][(last'.op = "swap" /\ last'.err = "Ok") =>
         /\ MintedByMessages(last'.out.messages) = last'.out.total_ustr_minted
         /\ storage'.STATS.total_ustr_minted
               = storage.STATS.total_ustr_minted
                   + MintedByMessages(last'.out.messages)]_vars


\* C32: whenever an upsert returns a change, the code is linked right below a
\* code whose reward is greater than or equal to its own and right above a
\* code whose reward is strictly smaller, whatever the hint: its
\* predecessor's reward >= its reward > its successor's reward.
C32_TieRule ==
    [][(UpsertedNext /\ last'.change # None) =>
         \A c \in {Unwrap(last'.code)} :
         \A link \in {storage'.LEADERBOARD_LINKS[c]} :
            /\ IsSome(link.prev) =>
                  Rewards(storage', Unwrap(link.prev)) >= Rewards(storage', c)
            /\ IsSome(link.next) =>
                  Rewards(storage', c) > Rewards(storage', Unwrap(link.next))]_vars

\* a code has just entered the list with a hint that claims the head: it was
\* linked in the middle, below a code with the same reward and above a
\* smaller one
C32_Witness ==
    /\ Upserted
    /\ last.change # None
    /\ Unwrap(last.change).action = "NewEntry"
    /\ last.hint = Some([insert_after |-> None])
    /\ \E link \in {storage.LEADERBOARD_LINKS[Unwrap(last.code)]} :
          /\ IsSome(link.prev)
          /\ IsSome(link.next)
          /\ Rewards(storage, Unwrap(link.prev)) = Rewards(storage, Unwrap(last.code))


\* C33: in every reachable state the link rows form a well-formed
\* doubly-linked list: for every node n, if n.next = m then m is a node and
\* m.prev = n, if n.prev = p then p is a node and p.next = n, and following
\* next from the head never meets a node twice.
C33_WellFormedList ==
    /\ \A n \in Listed(storage) :
        \A link \in {storage.LEADERBOARD_LINKS[n]} :
          /\ IsSome(link.next) =>
                /\ Unwrap(link.next) \in Listed(storage)
                /\ storage.LEADERBOARD_LINKS[Unwrap(link.next)].prev = Some(n)
          /\ IsSome(link.prev) =>
                /\ Unwrap(link.prev) \in Listed(storage)
                /\ storage.LEADERBOARD_LINKS[Unwrap(link.prev)].next = Some(n)
    /\ \A l \in {ListOf(storage)} :
          \A i, j \in 1..Len(l) : l[i] = l[j] => i = j

\* a listed code has just been unlinked and linked again between two other
\* nodes of a full list: both neighbours had their pointers rewritten twice
C33_Witness ==
    /\ Upserted
    /\ last.change # None
    /\ Unwrap(last.change).action = "PositionUp"
    /\ Len(ListOf(storage)) = 3
    /\ \E link \in {storage.LEADERBOARD_LINKS[Unwrap(last.code)]} :
          IsSome(link.prev) /\ IsSome(link.next)


\* C34: the treasury governance passes only to an address proposed by the
\* governance that is current at the moment of acceptance: every successful
\* AcceptGovernanceTransfer accepts a proposal whose author is the governance
\* in office when it is accepted, so a proposal of a previous governance is
\* never accepted after the governance changed hands.
C34_AcceptedProposalOfCurrentGovernance ==
    [][(last'.op = "accept_governance_transfer" /\ last'.err = "Ok") =>
         /\ last'.sender \in DOMAIN last.proposed_by
         /\ last.proposed_by[last'.sender] = storage.CONFIG.governance]_vars


\* C35: on every configuration instantiate has stored the rate is defined at
\* every block time: the CurrentRate query does not abort inside
\* calculate_current_rate, and neither the Swap nor the SwapSimulation that
\* was called has aborted there.
C35_RateAlwaysDefined ==
    /\ ~calculate_current_rate_panics(storage.CONFIG)
    /\ last.op \in {"swap", "simulated"} => last.out.err # "Panic"
    /\ last.op = "simulated" => Unwrap(last.sim).err # "Panic"


\* the sum of total_swaps over the rows of a code ledger
RECURSIVE SumOfSwaps(_)
SumOfSwaps(rows) ==
    IF DOMAIN rows = {} THEN 0
    ELSE LET code == CHOOSE c \in DOMAIN rows : TRUE
         IN  rows[code].total_swaps + SumOfSwaps(MapRemove(rows, code))

\* C36: after any sequence of swaps the global counters agree with the
\* per-code ledger: unique_referral_codes_used equals the number of
\* REFERRAL_CODE_STATS rows, and total_referral_swaps equals the sum of
\* total_swaps over all rows.
C36_CountersMatchLedger ==
    /\ storage.STATS.unique_referral_codes_used
          = Cardinality(DOMAIN storage.REFERRAL_CODE_STATS)
    /\ storage.STATS.total_referral_swaps = SumOfSwaps(storage.REFERRAL_CODE_STATS)

\* three referred swaps have left two rows: one code was used twice, once
\* typed in capitals, and the last Swap has just added the row of the other
C36_Witness ==
    /\ last.op = "swap"
    /\ last.err = "Ok"
    /\ last.referral_code = Some("b")
    /\ DOMAIN storage.REFERRAL_CODE_STATS = {"a", "b"}
    /\ storage.REFERRAL_CODE_STATS["a"].total_swaps = 2
    /\ storage.REFERRAL_CODE_STATS["b"].total_swaps = 1
    /\ storage.STATS.unique_referral_codes_used = 2
    /\ storage.STATS.total_referral_swaps = 3


\* C37: the swap contract holds one pending admin proposal at most. A
\* successful ProposeAdmin replaces the pending entry by the new nominee with
\* execute_after = block time + 604,800 s, whatever was pending; while the
\* replacing entry is pending, an AcceptAdmin of the nominee it replaced fails
\* with UnauthorizedPendingAdmin and changes nothing; and the admin changes
\* only to the nominee of the entry that is pending, not before that entry's
\* execute_after, so never through a replaced proposal.
C37_LaterProposalReplaces ==
    [][\A old \in {storage.PENDING_ADMIN}, new \in {storage'.PENDING_ADMIN} :
       /\ (last'.op = "propose_admin" /\ last'.err = "Ok") =>
             /\ new = Some([new_address |-> last'.new_admin,
                            execute_after |-> now + 604800])
             /\ last'.replaced = old
       /\ (/\ last'.op = "accept_admin"
           /\ IsSome(old)
           /\ IsSome(last.replaced)
           /\ last'.sender = Unwrap(last.replaced).new_address
           /\ last'.sender # Unwrap(old).new_address)
             => /\ last'.err = "UnauthorizedPendingAdmin"
                /\ storage' = storage
       /\ storage'.CONFIG.admin # storage.CONFIG.admin =>
             /\ IsSome(old)
             /\ storage'.CONFIG.admin = Unwrap(old).new_address
             /\ last'.sender = Unwrap(old).new_address
             /\ now >= Unwrap(old).execute_after]_vars

\* "user" was proposed in the first block and replaced by "other" one second
\* later; after the timelock of user's proposal has run out, but not the one
\* of the replacing proposal, user's AcceptAdmin has just been refused
C37_Witness ==
    /\ last.op = "accept_admin"
    /\ last.err = "UnauthorizedPendingAdmin"
    /\ last.sender = "user"
    /\ last.replaced = Some([new_address |-> "user",
                             execute_after |-> ADMIN_TIMELOCK_DURATION])
    /\ storage.PENDING_ADMIN = Some([new_address |-> "other",
                                     execute_after |-> 1 + ADMIN_TIMELOCK_DURATION])
    /\ now = ADMIN_TIMELOCK_DURATION
    /\ storage.CONFIG.admin = "admin"

====
